---- MODULE Spec2Model ----
(***************************************************************************)
(* Usage-aggregation core of codex_usage_monitor (package usage).          *)
(*                                                                         *)
(* A Go string is modelled as a sequence of tokens (each token a TLA+      *)
(* string): TrimSpace, ToLower, comparison and fmt.Sprintf are computed on *)
(* these sequences.  A nil pointer / nil error is the empty tuple None.    *)
(***************************************************************************)
EXTENDS Integers, Sequences, FiniteSets, TLC

VARIABLES
    accounts,            \* Fetcher.accounts
    server,              \* remote side: the identity the service reports for each account home
    initializationNote,  \* Fetcher.initializationNote
    env,                 \* process environment: CODEX_HOME and HOME
    phase,               \* "idle" | "fetching" | "returned"
    pc,                  \* position of each per-account worker goroutine
    sem,                 \* number of semaphore slots taken
    calls,               \* per worker: the Source.Fetch calls of this fetch, in order
    pending,             \* per worker: locals of fetchWithFallback kept across the fallback call
    results,             \* results[i] of fetchAccountsConcurrent
    out,                 \* the *Summary returned by Fetch (None when an error is returned)
    outErr,              \* the error returned by Fetch (None when a summary is returned)
    round,               \* number of Fetch calls completed so far
    keyHistory,          \* per account: the identity key and source of every completed Fetch
    appServer,           \* one AppServerSource: its session and authFingerprint
    procs,               \* every app-server child process started so far: "running" | "exited"
    authFile,            \* what reading auth.json yields now: a fingerprint, or "" when unreadable
    srcPc,               \* position inside AppServerSource.Fetch
    authTrace,           \* history of the Fetch calls on the source
    estimator,           \* observedTokenEstimator: cache, inflight, async
    clock,               \* the time the callers of Estimate and refreshAsync read
    estimateTrace,       \* the last Estimate call: its arguments and what it returned
    accountFetchers,     \* f.accounts with the identities of the source instances
    sources,             \* every source ever created: "open" | "closed"
    reloadTrace,         \* the last reload: the running set before it and the list loaded
    refresh,             \* Fetcher.accountsLastRefreshedAt, and the last refreshAccounts call
    scan,                \* computeObservedTokenEstimate at work: file sums, totals, prevTotal
    scanTrace,           \* the line read last and the last accepted event of the file
    window,              \* the last toWindowSummary call: raw window, clock, result
    deduped,             \* the last dedupeStrings call: its argument and what it returned
    collector,           \* accountCollector.byHome
    candidates,          \* the arguments of every accountCollector.add call so far, in order
    workers,             \* fetchAccountsConcurrent: the goroutines' positions and the semaphore
    rpcSource,           \* one AppServerSource under concurrent callers: session, reqMu
    rpcSessions,         \* every appServerSession created: cmd, initialized, pending, nextID
    children,            \* every child started: the process, its readLoop, its handshake
    callers,             \* the goroutines calling Fetch: position and locals
    closer,              \* the goroutine calling Close: position and locals
    rpcTrace,            \* counts of Fetch and Close calls, and what was observed on the way
    uiModel,             \* the tui.Model the Bubble Tea program holds
    program              \* the program: its running commands, the messages delivered so far

fetcherVars == <<accounts, server, initializationNote, env, phase, pc, sem, calls, pending,
                 results, out, outErr, round, keyHistory>>
appServerVars == <<appServer, procs, authFile, srcPc, authTrace>>
estimatorVars == <<estimator, clock, estimateTrace>>
reloadVars == <<accountFetchers, sources, reloadTrace, refresh>>
scanVars == <<scan, scanTrace>>
warningVars == <<deduped>>
collectorVars == <<collector, candidates>>
workerVars == <<workers>>
sessionVars == <<rpcSource, rpcSessions, children, callers, closer, rpcTrace>>
tuiVars == <<uiModel, program>>
laterVars == <<warningVars, collectorVars, workerVars, sessionVars, tuiVars>>
componentVars == <<appServerVars, estimatorVars, reloadVars, scanVars, window, laterVars>>
olderVars == <<fetcherVars, appServerVars, estimatorVars, reloadVars, scanVars, window>>
notSessionVars == <<olderVars, warningVars, collectorVars, workerVars, tuiVars>>
vars == <<fetcherVars, componentVars>>

\* a Go pointer or error value: None is nil, Some(v) points to v
None == <<>>
Some(v) == <<v>>

MaxAccounts == 2
MaxRounds == 2
MaxFetches == 3
MaxClock == 3
MaxEstimates == 3
MaxReloads == 3
MaxListLen == 2
MaxLines == 3
MaxFiles == 2
MaxNow == 5
MaxResetsAt == 2
MaxWarnings == 3
MaxCandidates == 2
MaxWorkers == 6
MaxSourceFetches == 2
MaxMessages == 4
MaxUiClock == 2
MaxWallClock == 3

-----------------------------------------------------------------------------
(* Strings *)

\* byte order of the tokens that occur: space < quote < upper case < lower case
TokenOrder ==
    <<" ", " failed: ", " fetch failed: ", " observed tokens unavailable: ",
      "\"", "/.codex", "/b", "/c", "/h", "/lb", "/missing",
      "; fallback source ", "; window cards are unavailable", "@", "A", "B",
      "I", "X", "a", "account", "account ", "account_id:",
      "active account home is not in discovered accounts",
      "active account home is unavailable",
      "active account usage fetch failed",
      "active account usage is unavailable",
      "all account fetches failed and observed tokens are unavailable",
      "app-server", "b", "boom", "c", "denied", "email:", "i",
      "local estimate", "missing primary source", "oauth",
      "partial sum across accounts; some account homes unavailable", "plus",
      "primary source ", "pro", "resolve home directory",
      "stat codex home failed", "sum across accounts",
      "token estimate warming or unavailable", "u", "unverified", "user_id:",
      "warming token estimate", "x">>

Rank(t) == CHOOSE i \in 1..Len(TokenOrder) : TokenOrder[i] = t

Min(a, b) == IF a < b THEN a ELSE b

\* a < b in Go's string order
StrLess(a, b) ==
    \/ \E i \in 1..Min(Len(a), Len(b)) :
          /\ \A j \in 1..(i - 1) : a[j] = b[j]
          /\ Rank(a[i]) < Rank(b[i])
    \/ /\ Len(a) < Len(b)
       /\ \A j \in 1..Len(a) : a[j] = b[j]

RECURSIVE TrimLeft(_)
TrimLeft(s) == IF s # <<>> /\ Head(s) = " " THEN TrimLeft(Tail(s)) ELSE s

RECURSIVE TrimRight(_)
TrimRight(s) ==
    IF s # <<>> /\ s[Len(s)] = " " THEN TrimRight(SubSeq(s, 1, Len(s) - 1)) ELSE s

TrimSpace(s) == TrimRight(TrimLeft(s))

LowerToken(t) ==
    CASE t = "A" -> "a"
      [] t = "B" -> "b"
      [] t = "I" -> "i"
      [] t = "X" -> "x"
      [] OTHER -> t

ToLower(s) == [i \in DOMAIN s |-> LowerToken(s[i])]

\* strconv.Quote as used by %q
Quote(s) == <<"\"">> \o s \o <<"\"">>

\* strings.Contains
Contains(s, sub) ==
    \E i \in 0..(Len(s) - Len(sub)) : SubSeq(s, i + 1, i + Len(sub)) = sub

-----------------------------------------------------------------------------
(* Paths, environment and the active home *)

\* homes that exist on disk, in canonical form
HomeA == <<"/h", "/.codex">>
HomeB == <<"/b">>
HomeC == <<"/c">>
HomeList == <<HomeA, HomeB, HomeC>>

\* filepath.EvalSymlinks: /lb is a symbolic link to /b; every other path
\* either is its own target or does not exist (the error leaves it as is)
EvalSymlinks(path) == IF path = <<"/lb">> THEN HomeB ELSE path

normalizeHome(home) ==
    LET trimmed == TrimSpace(home)
    IN  IF trimmed = <<>> THEN <<>> ELSE EvalSymlinks(trimmed)

\* defaultCodexHome: <<path, err>>
defaultCodexHome(e) ==
    LET codexHome == TrimSpace(e.CODEX_HOME)
    IN  IF codexHome # <<>> THEN <<codexHome, None>>
        ELSE IF e.HOME = <<>> THEN <<<<>>, Some(<<"resolve home directory">>)>>
        ELSE <<e.HOME \o <<"/.codex">>, None>>

\* variant: the active home is compared as the environment spells it
resolveActiveCodexHome_unresolved(e) ==
    LET r == defaultCodexHome(e)
    IN  IF r[2] # None THEN <<>> ELSE r[1]

resolveActiveCodexHome(e) ==
    LET r == defaultCodexHome(e)
    IN  IF r[2] # None THEN <<>> ELSE normalizeHome(r[1])

EnvPool ==
    { [CODEX_HOME |-> <<>>,            HOME |-> <<>>],
      [CODEX_HOME |-> <<>>,            HOME |-> <<"/h">>],
      [CODEX_HOME |-> <<" ", "/lb">>,  HOME |-> <<"/h">>],
      [CODEX_HOME |-> <<"/missing">>,  HOME |-> <<"/h">>] }

-----------------------------------------------------------------------------
(* Identity keys *)

unverifiedAccountIdentityKey == <<"unverified">>

\* variant: the account id takes precedence over the e-mail
identityKey_accountFirst(email, accountID, userID) ==
    IF TrimSpace(accountID) # <<>> THEN <<"account_id:">> \o ToLower(TrimSpace(accountID))
    ELSE IF TrimSpace(userID) # <<>> THEN <<"user_id:">> \o ToLower(TrimSpace(userID))
    ELSE IF TrimSpace(email) # <<>> THEN <<"email:">> \o ToLower(TrimSpace(email))
    ELSE <<>>

identityKey(email, accountID, userID) ==
    IF TrimSpace(email) # <<>> THEN <<"email:">> \o ToLower(TrimSpace(email))
    ELSE IF TrimSpace(accountID) # <<>> THEN <<"account_id:">> \o ToLower(TrimSpace(accountID))
    ELSE IF TrimSpace(userID) # <<>> THEN <<"user_id:">> \o ToLower(TrimSpace(userID))
    ELSE <<>>

\* variant: an account without identifiers is keyed by its home
accountIdentityOrHomeKey_home(account, home) ==
    LET identity == identityKey(account.AccountEmail, account.AccountID, account.UserID)
    IN  IF identity # <<>> THEN identity ELSE <<"home:">> \o home

accountIdentityOrHomeKey(account, home) ==
    LET identity == identityKey(account.AccountEmail, account.AccountID, account.UserID)
    IN  IF identity # <<>> THEN identity ELSE unverifiedAccountIdentityKey

-----------------------------------------------------------------------------
(* Summary model *)

observedTokensStatusEstimated == <<"estimated">>
observedTokensStatusPartial == <<"partial">>
observedTokensStatusUnavailable == <<"unavailable">>

ZeroWindow == [UsedPercent |-> 0]
ZeroBreakdown == [Total |-> 0, Input |-> 0, HasSplit |-> FALSE]
ZeroPair == [Window5h |-> ZeroBreakdown, WindowWeekly |-> ZeroBreakdown]

ZeroSummary ==
    [Source |-> <<>>, PlanType |-> <<>>, AccountEmail |-> <<>>, AccountID |-> <<>>,
     UserID |-> <<>>, WindowDataAvailable |-> FALSE, PrimaryWindow |-> ZeroWindow,
     SecondaryWindow |-> ZeroWindow, WindowAccountLabel |-> <<>>,
     AdditionalLimitCount |-> 0, TotalAccounts |-> 0, SuccessfulAccounts |-> 0,
     Accounts |-> <<>>, ObservedTokens5h |-> None, ObservedTokensWeekly |-> None,
     ObservedWindow5h |-> None, ObservedWindowWeekly |-> None,
     ObservedTokensStatus |-> <<>>, ObservedTokensWarming |-> FALSE,
     ObservedTokensNote |-> <<>>, Warnings |-> <<>>, FetchedAt |-> 0]

ZeroAccountSummary ==
    [Label |-> <<>>, Source |-> <<>>, PlanType |-> <<>>, AccountEmail |-> <<>>,
     AccountID |-> <<>>, UserID |-> <<>>, PrimaryWindow |-> ZeroWindow,
     SecondaryWindow |-> ZeroWindow, AdditionalLimitCount |-> 0,
     ObservedTokens5h |-> None, ObservedTokensWeekly |-> None,
     ObservedWindow5h |-> None, ObservedWindowWeekly |-> None,
     ObservedTokensStatus |-> <<>>, ObservedTokensWarming |-> FALSE,
     ObservedTokensNote |-> <<>>, Warnings |-> <<>>, Error |-> <<>>,
     FetchedAt |-> None]

RECURSIVE InsertSorted(_, _)
InsertSorted(sorted, v) ==
    IF sorted = <<>> THEN <<v>>
    ELSE IF StrLess(v, Head(sorted)) THEN <<v>> \o sorted
    ELSE <<Head(sorted)>> \o InsertSorted(Tail(sorted), v)

RECURSIVE SortStrings(_)
SortStrings(values) ==
    IF values = <<>> THEN <<>>
    ELSE InsertSorted(SortStrings(Tail(values)), Head(values))

RECURSIVE dedupeLoop(_, _)
dedupeLoop(values, acc) ==
    IF values = <<>> THEN acc
    ELSE LET trimmed == TrimSpace(Head(values))
         IN  IF trimmed = <<>> \/ (\E i \in DOMAIN acc : acc[i] = trimmed)
             THEN dedupeLoop(Tail(values), acc)
             ELSE dedupeLoop(Tail(values), Append(acc, trimmed))

dedupeStrings(values) == SortStrings(dedupeLoop(values, <<>>))

-----------------------------------------------------------------------------
(* Sources *)

AppServerName == <<"app-server">>
OAuthName == <<"oauth">>

normalizeSummary(source, snapshot, additionalLimitCount, identity, warnings, now) ==
    [ZeroSummary EXCEPT
        !.Source = source,
        !.PlanType = snapshot.PlanType,
        !.WindowDataAvailable = TRUE,
        !.PrimaryWindow = [UsedPercent |-> snapshot.Primary],
        !.SecondaryWindow = [UsedPercent |-> snapshot.Secondary],
        !.AdditionalLimitCount = additionalLimitCount,
        !.Warnings = warnings,
        !.FetchedAt = now,
        !.AccountEmail = IF identity = None THEN <<>> ELSE identity[1].Email,
        !.AccountID = IF identity = None THEN <<>> ELSE identity[1].AccountID,
        !.UserID = IF identity = None THEN <<>> ELSE identity[1].UserID]

\* a successful AppServerSource.Fetch: account/read reports the e-mail only
AppServerFetch(remote, now) ==
    normalizeSummary(AppServerName, remote.limits, 0,
        Some([Email |-> TrimSpace(remote.Email), AccountID |-> <<>>, UserID |-> <<>>]),
        <<>>, now)

\* a successful OAuthSource.Fetch: the usage payload carries all three identifiers
OAuthFetch(remote, now) ==
    normalizeSummary(OAuthName, remote.limits, 0,
        Some([Email |-> TrimSpace(remote.Email),
              AccountID |-> TrimSpace(remote.AccountID),
              UserID |-> TrimSpace(remote.UserID)]),
        <<>>, now)

SourceFetch(source, remote, now) ==
    IF source.name = AppServerName THEN AppServerFetch(remote, now)
    ELSE OAuthFetch(remote, now)

-----------------------------------------------------------------------------
(* Inputs *)

LabelOf(home) ==
    CASE home = HomeA -> <<"a">>
      [] home = HomeB -> <<"B">>
      [] OTHER -> <<"a">>

LimitsOf(home) ==
    CASE home = HomeA -> [PlanType |-> <<"pro">>, Primary |-> 10, Secondary |-> 20]
      [] home = HomeB -> [PlanType |-> <<"plus">>, Primary |-> 30, Secondary |-> 40]
      [] OTHER -> [PlanType |-> <<"pro">>, Primary |-> 50, Secondary |-> 60]

\* identifiers as the service reports them, before any trimming
IdentityPool ==
    { [Email |-> <<"A", "@", "x">>,      AccountID |-> <<"I">>, UserID |-> <<"u">>],
      [Email |-> <<" ", "a", "@", "X">>, AccountID |-> <<>>,    UserID |-> <<>>],
      [Email |-> <<>>,                   AccountID |-> <<"I">>, UserID |-> <<"u">>],
      [Email |-> <<>>,                   AccountID |-> <<" ">>, UserID |-> <<"u">>] }

\* the identities tried for each home; the third home is tried with the one
\* identity that the two sources key differently
IdentitiesOf(home) ==
    IF home = HomeC
    THEN {[Email |-> <<>>, AccountID |-> <<"I">>, UserID |-> <<"u">>]}
    ELSE IdentityPool

Remote(home, id) ==
    [Email |-> id.Email, AccountID |-> id.AccountID, UserID |-> id.UserID,
     limits |-> LimitsOf(home)]

\* time.Now() when a source builds its summary: the primary answers at
\* instant 1; a fallback is only started after its primary has failed and
\* answers at instant 2
FetchTime(source) == IF source.name = AppServerName THEN 1 ELSE 2

PrimaryErrPool == {<<"boom">>}
FallbackErrPool == {<<"denied">>}

Breakdown(total) == [Total |-> total, Input |-> total, HasSplit |-> total > 0]

\* the totals in the session journals below each home: <<5h, weekly>>
JournalOf(home) ==
    CASE home = HomeA -> <<1, 3>>
      [] home = HomeB -> <<2, 2>>
      [] OTHER -> <<4, 4>>

\* what tokenEstimator.Estimate can return for a home: the estimate and the
\* error (home not accessible; nothing cached yet in async mode; an estimate)
EstimatePool(home) ==
    { [err |-> Some(<<"stat codex home failed">>),
       estimate |-> [Window5h |-> ZeroBreakdown, WindowWeekly |-> ZeroBreakdown,
                     Status |-> observedTokensStatusUnavailable,
                     Note |-> <<"stat codex home failed">>, Warming |-> FALSE,
                     Warnings |-> <<>>]],
      [err |-> None,
       estimate |-> [Window5h |-> ZeroBreakdown, WindowWeekly |-> ZeroBreakdown,
                     Status |-> observedTokensStatusUnavailable,
                     Note |-> <<"warming token estimate">>, Warming |-> TRUE,
                     Warnings |-> <<>>]],
      [err |-> None,
       estimate |-> [Window5h |-> Breakdown(JournalOf(home)[1]),
                     WindowWeekly |-> Breakdown(JournalOf(home)[2]),
                     Status |-> observedTokensStatusEstimated,
                     Note |-> <<"local estimate">>, Warming |-> FALSE,
                     Warnings |-> <<>>]] }

NumAccounts == Len(accounts)
Workers == 1..NumAccounts
HomeOf(i) == accounts[i].account.CodexHome

-----------------------------------------------------------------------------
(* State after newConfiguredFetcher *)

NewAccountFetcher(home) ==
    [account |-> [Label |-> LabelOf(home), CodexHome |-> home],
     primary |-> Some([name |-> AppServerName]),
     fallback |-> Some([name |-> OAuthName])]

\* NewAppServerSourceForHome: no session, no fingerprint stored
NewAppServerSource == [session |-> None, authFingerprint |-> ""]

\* snapshot: the answer to account/rateLimits/read of the running Fetch;
\* result: what the last Fetch returned, with the outcome of its fetchAccount
NoAuthTrace ==
    [fetches |-> 0, observed |-> "", prevObserved |-> None, leftPid |-> 0,
     requests |-> <<>>, refresh |-> None, snapshot |-> None, result |-> None]

\* the app-server source before its first Fetch, signed out
AppServerIdle ==
    /\ appServer = NewAppServerSource
    /\ procs = <<>>
    /\ authFile = ""
    /\ srcPc = "idle"
    /\ authTrace = NoAuthTrace

\* newObservedTokenEstimator
\* refreshes: per home, the launch times of the refreshAsync goroutines that
\* have not returned; refreshed: the goroutine that returned last
NewEstimator(async) ==
    [cache |-> <<>>, inflight |-> {}, async |-> async, refreshes |-> <<>>, refreshed |-> None]

EstimatorAt(async) ==
    /\ estimator = NewEstimator(async)
    /\ clock = 0
    /\ estimateTrace = None

\* fetchers are built with the asynchronous estimator
EstimatorIdle == EstimatorAt(TRUE)

NoReloadTrace ==
    [reloads |-> 0, before |-> <<>>, list |-> <<>>, sourcesBefore |-> <<>>, closed |-> FALSE]

\* a Fetcher before its first refreshAccounts: no account, no source
ReloadIdle ==
    /\ accountFetchers = <<>>
    /\ sources = <<>>
    /\ reloadTrace = NoReloadTrace
    /\ refresh = [accountsLastRefreshedAt |-> None, call |-> None]

\* tokenAccumulator{} (the split fields are summed the same way, field by field)
ZeroAccumulator == [Total |-> 0, Input |-> 0, Output |-> 0, HasSplit |-> FALSE]

\* computeObservedTokenEstimate before the first file, for a pair of cutoffs
NewScan(cutoff5h, cutoff1w) ==
    [cutoff5h |-> cutoff5h, cutoff1w |-> cutoff1w, file |-> 1, lines |-> 0,
     prevTotal |-> None, sum5h |-> ZeroAccumulator, sum1w |-> ZeroAccumulator,
     parseErrCount |-> 0, total5h |-> ZeroAccumulator, totalWeekly |-> ZeroAccumulator,
     warnings |-> <<>>, err |-> None]

\* what is remembered of the file being read: the line read last, the last
\* accepted event and whether the one before it was older than the week, the
\* number of lines that did not parse, and the sums and the anchor of the same
\* file without those lines
NoScanTrace ==
    [n |-> 0, line |-> None, accepted |-> None, afterOld |-> FALSE, skipped |-> 0,
     without |-> [prevTotal |-> None, sum5h |-> ZeroAccumulator, sum1w |-> ZeroAccumulator]]

ScanAt(cutoff5h, cutoff1w) ==
    /\ scan = NewScan(cutoff5h, cutoff1w)
    /\ scanTrace = NoScanTrace

ScanIdle == ScanAt(0, 0)

\* no window converted yet
WindowIdle == window = None

WarningsIdle == deduped = None

\* newAccountCollector
newAccountCollector == [byHome |-> <<>>]

CollectorIdle ==
    /\ collector = newAccountCollector
    /\ candidates = <<>>

\* fetchAccountsConcurrent with n accounts, every goroutine started
\* results := make([]accountFetchResult, n): every slot holds the zero value
WorkersAt(n) ==
    workers = [pc |-> [i \in 1..n |-> "started"], sem |-> 0, returned |-> FALSE,
               results |-> [i \in 1..n |-> [value |-> 0, writes |-> 0]],
               outOfOrder |-> FALSE]

WorkersIdle == WorkersAt(0)

\* the goroutines that call Fetch on the one source
FetchCallers == {1, 2}

emptyChan == [state |-> "empty", id |-> 0, error |-> FALSE]

idleCaller ==
    [pc |-> "idle", session |-> 0, pid |-> 0, reqID |-> 0, method |-> "",
     respCh |-> emptyChan, failure |-> None, staleDropped |-> FALSE]

SessionIdle ==
    /\ rpcSource = [session |-> 0, reqMu |-> 0]
    /\ rpcSessions = <<>>
    /\ children = <<>>
    /\ callers = [c \in FetchCallers |-> idleCaller]
    /\ closer = [pc |-> "idle", session |-> 0]
    /\ rpcTrace = [fetches |-> 0, lateFetch |-> FALSE]

\* tui.NewModel; the clock counts from the construction
defaultInterval == 2
NewModel(opts, now) ==
    LET interval == IF opts.Interval <= 0 THEN defaultInterval ELSE opts.Interval
    IN  [interval |-> interval, width |-> 0, height |-> 0, now |-> now, fetching |-> TRUE,
         lastAttemptAt |-> None, lastSuccessAt |-> None, lastFetchDuration |-> 0,
         lastError |-> <<>>, nextFetchAt |-> Some(now + interval), summary |-> None]

\* no command runs and no message is delivered before the program starts
NoCmds == [fetch |-> 0, poll |-> 0, clock |-> 0]
NewProgram ==
    [started |-> FALSE, quit |-> FALSE, cmds |-> NoCmds, wall |-> 0, delivered |-> 0,
     msg |-> None, fetchesStarted |-> 0, lastGood |-> None]

\* the live UI built with the default options, not yet run
TuiIdle ==
    /\ uiModel = NewModel([Interval |-> 0], 0)
    /\ program = NewProgram

LaterIdle ==
    /\ WarningsIdle
    /\ CollectorIdle
    /\ WorkersIdle
    /\ SessionIdle
    /\ TuiIdle

ComponentsIdle ==
    /\ AppServerIdle
    /\ EstimatorIdle
    /\ ReloadIdle
    /\ ScanIdle
    /\ WindowIdle
    /\ LaterIdle

Init ==
    /\ ComponentsIdle
    /\ \E n \in 1..Min(MaxAccounts, Len(HomeList)) :
          /\ accounts = [i \in 1..n |-> NewAccountFetcher(HomeList[i])]
          /\ server \in {f \in [{HomeList[i] : i \in 1..n} -> IdentityPool] :
                              \A h \in DOMAIN f : f[h] \in IdentitiesOf(h)}
          /\ pc = [i \in 1..n |-> "idle"]
          /\ calls = [i \in 1..n |-> <<>>]
          /\ pending = [i \in 1..n |-> None]
          /\ results = [i \in 1..n |-> None]
          /\ keyHistory = [i \in 1..n |-> <<>>]
    /\ initializationNote = <<>>
    /\ env \in EnvPool
    /\ phase = "idle"
    /\ sem = 0
    /\ out = None
    /\ outErr = None
    /\ round = 0

-----------------------------------------------------------------------------
(* Per-account work *)

\* the part of fetchAccountResult after fetchWithFallback has returned
fetchAccountResult(account, snapshot, fetchErr, est) ==
    LET base == [ZeroAccountSummary EXCEPT !.Label = account.account.Label]
        fetched ==
            IF fetchErr # None
            THEN [base EXCEPT !.Error = fetchErr[1]]
            ELSE [base EXCEPT
                    !.Source = snapshot[1].Source,
                    !.PlanType = snapshot[1].PlanType,
                    !.AccountEmail = snapshot[1].AccountEmail,
                    !.AccountID = snapshot[1].AccountID,
                    !.UserID = snapshot[1].UserID,
                    !.PrimaryWindow = snapshot[1].PrimaryWindow,
                    !.SecondaryWindow = snapshot[1].SecondaryWindow,
                    !.AdditionalLimitCount = snapshot[1].AdditionalLimitCount,
                    !.Warnings = snapshot[1].Warnings,
                    !.FetchedAt = Some(snapshot[1].FetchedAt)]
        e == est.estimate
        observed ==
            IF est.err # None
            THEN [fetched EXCEPT
                    !.ObservedTokensStatus = observedTokensStatusUnavailable,
                    !.ObservedTokensNote = e.Note,
                    !.ObservedTokensWarming = e.Warming]
            ELSE [fetched EXCEPT
                    !.ObservedTokensStatus = e.Status,
                    !.ObservedTokensNote = e.Note,
                    !.ObservedTokensWarming = e.Warming,
                    !.Warnings = fetched.Warnings \o e.Warnings,
                    !.ObservedWindow5h = Some(e.Window5h),
                    !.ObservedWindowWeekly = Some(e.WindowWeekly),
                    !.ObservedTokens5h = Some(e.Window5h.Total),
                    !.ObservedTokensWeekly = Some(e.WindowWeekly.Total)]
    IN  [codexHome |-> account.account.CodexHome,
         account |-> [observed EXCEPT !.Warnings = dedupeStrings(observed.Warnings)],
         snapshot |-> IF fetchErr # None THEN None ELSE snapshot,
         fetchErr |-> fetchErr,
         observedAvailable |->
            est.err = None /\ e.Status # observedTokensStatusUnavailable,
         observedUnavailable |->
            est.err # None \/ e.Status = observedTokensStatusUnavailable,
         warnings |->
            IF est.err # None
            THEN << <<"account ">> \o Quote(account.account.Label)
                    \o <<" observed tokens unavailable: ">> \o est.err[1] >>
            ELSE <<>>]

\* the worker leaves fetchWithFallback with (snapshot, fetchErr), runs the
\* estimator, stores results[i] and gives its semaphore slot back
Finish(i, snapshot, fetchErr) ==
    \E est \in EstimatePool(HomeOf(i)) :
        /\ results' = [results EXCEPT
                          ![i] = Some(fetchAccountResult(accounts[i], snapshot, fetchErr, est))]
        /\ pc' = [pc EXCEPT ![i] = "done"]
        /\ sem' = sem - 1

Parallelism == IF NumAccounts > 4 THEN 4 ELSE NumAccounts

\* sem <- struct{}{}
Acquire(i) ==
    /\ phase = "fetching"
    /\ pc[i] = "wait"
    /\ sem < Parallelism
    /\ sem' = sem + 1
    /\ pc' = [pc EXCEPT ![i] = "primary"]
    /\ UNCHANGED <<accounts, server, initializationNote, env, phase, calls, pending,
                   results, out, outErr, round, keyHistory>>
    /\ UNCHANGED componentVars

\* variant: the fallback is consulted whenever there is one
afterPrimary_alwaysFallback(primaryErr, fallback) ==
    IF fallback # None THEN "fallback"
    ELSE IF primaryErr = None THEN "return"
    ELSE "fail"

\* fetchWithFallback, lines 226-233: what follows the return of primary.Fetch
afterPrimary(primaryErr, fallback) ==
    IF primaryErr = None THEN "return"
    ELSE IF fallback = None THEN "fail"
    ELSE "fallback"

\* variant: the warning leaves the primary's error out
primaryFailedWarning_noError(primaryName, primaryErr) ==
    <<"primary source ">> \o Quote(primaryName) \o <<" failed: ">>

\* the warning appended to the fallback's summary
primaryFailedWarning(primaryName, primaryErr) ==
    <<"primary source ">> \o Quote(primaryName) \o <<" failed: ">> \o primaryErr

\* fetchWithFallback up to the return of primary.Fetch
PrimaryReturns(i) ==
    /\ phase = "fetching"
    /\ pc[i] = "primary"
    /\ LET primary == accounts[i].primary
           fallback == accounts[i].fallback
       IN  IF primary = None
           THEN /\ Finish(i, None, Some(<<"missing primary source">>))
                /\ UNCHANGED <<calls, pending>>
           ELSE \E primaryErr \in {None} \cup {Some(e) : e \in PrimaryErrPool} :
                  LET primarySummary ==
                          SourceFetch(primary[1], Remote(HomeOf(i), server[HomeOf(i)]),
                                      FetchTime(primary[1]))
                      step == afterPrimary(primaryErr, fallback)
                  IN  /\ calls' = [calls EXCEPT
                                      ![i] = Append(@, [src |-> "primary", err |-> primaryErr])]
                      /\ CASE step = "return" ->
                                /\ Finish(i, Some(primarySummary), None)
                                /\ UNCHANGED pending
                           [] step = "fail" ->
                                /\ Finish(i, None,
                                      Some(<<"primary source ">> \o Quote(primary[1].name)
                                           \o <<" failed: ">> \o primaryErr[1]))
                                /\ UNCHANGED pending
                           [] OTHER ->
                                /\ pending' = [pending EXCEPT ![i] = Some(primaryErr)]
                                /\ pc' = [pc EXCEPT ![i] = "fallback"]
                                /\ UNCHANGED <<results, sem>>
    /\ UNCHANGED <<accounts, server, initializationNote, env, phase, out, outErr,
                   round, keyHistory>>
    /\ UNCHANGED componentVars

\* fetchWithFallback from the return of fallback.Fetch
FallbackReturns(i) ==
    /\ phase = "fetching"
    /\ pc[i] = "fallback"
    /\ LET primary == accounts[i].primary[1]
           fallback == accounts[i].fallback[1]
           primaryErr == pending[i][1][1]
       IN  \E fallbackErr \in {None} \cup {Some(e) : e \in FallbackErrPool} :
             LET fallbackSummary ==
                     SourceFetch(fallback, Remote(HomeOf(i), server[HomeOf(i)]),
                                 FetchTime(fallback))
                 warned ==
                     [fallbackSummary EXCEPT
                         !.Warnings = Append(@, primaryFailedWarning(primary.name, primaryErr))]
             IN  /\ calls' = [calls EXCEPT
                                 ![i] = Append(@, [src |-> "fallback", err |-> fallbackErr])]
                 /\ IF fallbackErr = None
                    THEN Finish(i, Some(warned), None)
                    ELSE Finish(i, None,
                            Some(<<"primary source ">> \o Quote(primary.name)
                                 \o <<" failed: ">> \o primaryErr
                                 \o <<"; fallback source ">> \o Quote(fallback.name)
                                 \o <<" failed: ">> \o fallbackErr[1]))
    /\ pending' = [pending EXCEPT ![i] = None]
    /\ UNCHANGED <<accounts, server, initializationNote, env, phase, out, outErr,
                   round, keyHistory>>
    /\ UNCHANGED componentVars

-----------------------------------------------------------------------------
(* Aggregation: Fetcher.fetchMultiAccount *)

EmptyMap == [k \in {} |-> None]
MapPut(m, k, v) == [x \in (DOMAIN m) \cup {k} |-> IF x = k THEN v ELSE m[x]]
MapGet(m, k, zero) == IF k \in DOMAIN m THEN m[k] ELSE zero

addBreakdowns(a, b) ==
    [Total |-> a.Total + b.Total,
     Input |-> a.Input + b.Input,
     HasSplit |-> a.HasSplit \/ b.HasSplit]

addObservedPairs(a, b) ==
    [Window5h |-> addBreakdowns(a.Window5h, b.Window5h),
     WindowWeekly |-> addBreakdowns(a.WindowWeekly, b.WindowWeekly)]

\* variant: two observations of one identity are added up
mergeBreakdownMax_sum(a, b) == addBreakdowns(a, b)

mergeBreakdownMax(a, b) == IF b.Total > a.Total THEN b ELSE a

mergeObservedPairMax(prev, next) ==
    [Window5h |-> mergeBreakdownMax(prev.Window5h, next.Window5h),
     WindowWeekly |-> mergeBreakdownMax(prev.WindowWeekly, next.WindowWeekly)]

\* variant: the test for an empty active home is inverted
isActiveHome_emptyMatches(codexHome, activeHome) ==
    activeHome = <<>> \/ normalizeHome(codexHome) = activeHome

isActiveHome(codexHome, activeHome) ==
    activeHome # <<>> /\ normalizeHome(codexHome) = activeHome

\* time.Time.After on *time.Time values that are not nil
After(t, u) == t[1] > u[1]

\* variant: the result processed last replaces the row
shouldPreferAccountSummary_always(existing, candidate, candidateHome, activeHome) == TRUE

shouldPreferAccountSummary(existing, candidate, candidateHome, activeHome) ==
    LET existingOK == TrimSpace(existing.account.Error) = <<>>
        candidateOK == TrimSpace(candidate.Error) = <<>>
        existingActive == isActiveHome(existing.codexHome, activeHome)
        candidateActive == isActiveHome(candidateHome, activeHome)
    IN  IF existingOK # candidateOK THEN candidateOK
        ELSE IF existingActive # candidateActive THEN candidateActive
        ELSE IF existing.account.FetchedAt = None THEN candidate.FetchedAt # None
        ELSE IF candidate.FetchedAt = None THEN FALSE
        ELSE After(candidate.FetchedAt, existing.account.FetchedAt)

\* the comparator handed to sort.Slice
AccountLess(a, b) ==
    IF a.Label # b.Label THEN StrLess(a.Label, b.Label)
    ELSE IF a.AccountEmail # b.AccountEmail THEN StrLess(a.AccountEmail, b.AccountEmail)
    ELSE StrLess(a.Source, b.Source)

\* every order sort.Slice can leave the rows of the map in: rows that the
\* comparator does not separate can come out either way round
accountSummariesFromIdentityMap(byIdentity) ==
    LET keys == DOMAIN byIdentity
        n == Cardinality(keys)
    IN  { [i \in 1..n |-> byIdentity[order[i]].account] :
            order \in { o \in [1..n -> keys] :
                          /\ \A i, j \in 1..n : i # j => o[i] # o[j]
                          /\ \A i, j \in 1..n :
                                i < j => ~AccountLess(byIdentity[o[j]].account,
                                                      byIdentity[o[i]].account) } }

RECURSIVE SumPairs(_, _)
SumPairs(byIdentity, keys) ==
    IF keys = {} THEN ZeroPair
    ELSE LET k == CHOOSE x \in keys : TRUE
         IN  addObservedPairs(SumPairs(byIdentity, keys \ {k}), byIdentity[k])

LoopInit(note) ==
    [Warnings |-> IF note # <<>> THEN <<note>> ELSE <<>>,
     anyAccountSuccess |-> FALSE,
     anyObservedAvailable |-> FALSE,
     anyObservedWarming |-> FALSE,
     unavailableObservedCount |-> 0,
     totalAccountIdentities |-> {},
     successfulAccountIdentities |-> {},
     seenObservedByIdentity |-> EmptyMap,
     accountByIdentity |-> EmptyMap,
     activeSuccess |-> None,
     activeLabel |-> <<>>,
     activeHomeDiscovered |-> FALSE,
     activeFetchFailed |-> FALSE]

\* variant: every result counts as successful, as if the fetch error were not tested
trackIdentity_countsFailed(st, result, activeHome) ==
    LET accountOut == result.account
        accountIdentity == accountIdentityOrHomeKey(accountOut, result.codexHome)
        isActive == isActiveHome(result.codexHome, activeHome)
        failed == result.fetchErr # None
        succeeded == ~failed /\ result.snapshot # None
    IN  [st EXCEPT
            !.totalAccountIdentities = @ \cup {accountIdentity},
            !.activeHomeDiscovered = @ \/ isActive,
            !.Warnings =
                IF failed
                THEN Append(@, <<"account ">> \o Quote(accountOut.Label)
                               \o <<" fetch failed: ">> \o result.fetchErr[1])
                ELSE @,
            !.activeFetchFailed = @ \/ (failed /\ isActive),
            !.anyAccountSuccess = @ \/ succeeded,
            !.successfulAccountIdentities = @ \cup {accountIdentity},
            !.activeSuccess = IF succeeded /\ isActive THEN result.snapshot ELSE @,
            !.activeLabel = IF succeeded /\ isActive THEN accountOut.Label ELSE @]

\* loop body, lines 112-130: identities, the fetch warning, the active account
trackIdentity(st, result, activeHome) ==
    LET accountOut == result.account
        accountIdentity == accountIdentityOrHomeKey(accountOut, result.codexHome)
        isActive == isActiveHome(result.codexHome, activeHome)
        failed == result.fetchErr # None
        succeeded == ~failed /\ result.snapshot # None
    IN  [st EXCEPT
            !.totalAccountIdentities = @ \cup {accountIdentity},
            !.activeHomeDiscovered = @ \/ isActive,
            !.Warnings =
                IF failed
                THEN Append(@, <<"account ">> \o Quote(accountOut.Label)
                               \o <<" fetch failed: ">> \o result.fetchErr[1])
                ELSE @,
            !.activeFetchFailed = @ \/ (failed /\ isActive),
            !.anyAccountSuccess = @ \/ succeeded,
            !.successfulAccountIdentities =
                IF succeeded THEN @ \cup {accountIdentity} ELSE @,
            !.activeSuccess = IF succeeded /\ isActive THEN result.snapshot ELSE @,
            !.activeLabel = IF succeeded /\ isActive THEN accountOut.Label ELSE @]

\* loop body, lines 131-152: observed tokens and the account's own warnings
trackObserved(st, result) ==
    LET accountOut == result.account
        pair == [Window5h |-> IF accountOut.ObservedWindow5h # None
                              THEN accountOut.ObservedWindow5h[1] ELSE ZeroBreakdown,
                 WindowWeekly |-> IF accountOut.ObservedWindowWeekly # None
                                  THEN accountOut.ObservedWindowWeekly[1] ELSE ZeroBreakdown]
        identity == accountIdentityOrHomeKey(accountOut, result.codexHome)
        prev == MapGet(st.seenObservedByIdentity, identity, ZeroPair)
    IN  [st EXCEPT
            !.anyObservedAvailable = @ \/ result.observedAvailable,
            !.seenObservedByIdentity =
                IF result.observedAvailable
                THEN MapPut(@, identity, mergeObservedPairMax(prev, pair))
                ELSE @,
            !.unavailableObservedCount = @ + (IF result.observedUnavailable THEN 1 ELSE 0),
            !.anyObservedWarming = @ \/ accountOut.ObservedTokensWarming,
            !.Warnings = @ \o result.warnings]

\* loop body, lines 153-159: the row kept for the identity
trackRow(st, result, activeHome) ==
    LET accountOut == result.account
        accountIdentity == accountIdentityOrHomeKey(accountOut, result.codexHome)
        ok == accountIdentity \in DOMAIN st.accountByIdentity
    IN  IF ~ok \/ shouldPreferAccountSummary(st.accountByIdentity[accountIdentity],
                                             accountOut, result.codexHome, activeHome)
        THEN [st EXCEPT
                !.accountByIdentity =
                    MapPut(@, accountIdentity,
                           [account |-> accountOut, codexHome |-> result.codexHome])]
        ELSE st

\* one iteration of "for _, result := range results"
LoopBody(st, result, activeHome) ==
    trackRow(trackObserved(trackIdentity(st, result, activeHome), result),
             result, activeHome)

RECURSIVE Loop(_, _, _, _)
Loop(st, rs, i, activeHome) ==
    IF i > Len(rs) THEN st
    ELSE Loop(LoopBody(st, rs[i][1], activeHome), rs, i + 1, activeHome)

\* variant: unavailable accounts are not looked at once an estimate exists
observedStatus_noPartial(anyObservedAvailable, unavailableObservedCount) ==
    IF anyObservedAvailable
    THEN observedTokensStatusEstimated
    ELSE observedTokensStatusUnavailable

\* lines 191-211: the aggregate status
observedStatus(anyObservedAvailable, unavailableObservedCount) ==
    IF anyObservedAvailable
    THEN IF unavailableObservedCount > 0
         THEN observedTokensStatusPartial
         ELSE observedTokensStatusEstimated
    ELSE observedTokensStatusUnavailable

\* variant: the observed estimates are not consulted
aggregateFails_ignoresObserved(st) == ~st.anyAccountSuccess

\* line 215: the only error fetchMultiAccount returns
aggregateFails(st) == ~st.anyAccountSuccess /\ ~st.anyObservedAvailable

\* the summary built after the loop, for one order of the account rows
BuildSummary(st, accountRows, activeHome, now) ==
    LET counted ==
            [ZeroSummary EXCEPT
                !.ObservedTokensStatus = observedTokensStatusUnavailable,
                !.FetchedAt = now,
                !.Accounts = accountRows,
                !.TotalAccounts = Cardinality(st.totalAccountIdentities),
                !.SuccessfulAccounts = Cardinality(st.successfulAccountIdentities)]
        active == st.activeSuccess
        unavailableWarning ==
            IF activeHome = <<>>
            THEN <<"active account home is unavailable", "; window cards are unavailable">>
            ELSE IF ~st.activeHomeDiscovered
            THEN <<"active account home is not in discovered accounts", "; window cards are unavailable">>
            ELSE IF st.activeFetchFailed
            THEN <<"active account usage fetch failed", "; window cards are unavailable">>
            ELSE <<"active account usage is unavailable", "; window cards are unavailable">>
        windowed ==
            IF active # None
            THEN [counted EXCEPT
                    !.Source = active[1].Source,
                    !.PlanType = active[1].PlanType,
                    !.AccountEmail = active[1].AccountEmail,
                    !.AccountID = active[1].AccountID,
                    !.UserID = active[1].UserID,
                    !.WindowDataAvailable = TRUE,
                    !.PrimaryWindow = active[1].PrimaryWindow,
                    !.SecondaryWindow = active[1].SecondaryWindow,
                    !.WindowAccountLabel = st.activeLabel,
                    !.AdditionalLimitCount = active[1].AdditionalLimitCount,
                    !.FetchedAt = active[1].FetchedAt,
                    !.Warnings = st.Warnings]
            ELSE [counted EXCEPT
                    !.WindowDataAvailable = FALSE,
                    !.Warnings = Append(st.Warnings, unavailableWarning)]
        observedTotal ==
            SumPairs(st.seenObservedByIdentity, DOMAIN st.seenObservedByIdentity)
        observed ==
            IF st.anyObservedAvailable
            THEN [windowed EXCEPT
                    !.ObservedTokensStatus =
                        observedStatus(st.anyObservedAvailable, st.unavailableObservedCount),
                    !.ObservedWindow5h = Some(observedTotal.Window5h),
                    !.ObservedWindowWeekly = Some(observedTotal.WindowWeekly),
                    !.ObservedTokens5h = Some(observedTotal.Window5h.Total),
                    !.ObservedTokensWeekly = Some(observedTotal.WindowWeekly.Total),
                    !.ObservedTokensNote =
                        IF st.unavailableObservedCount > 0
                        THEN <<"partial sum across accounts; some account homes unavailable">>
                        ELSE <<"sum across accounts">>,
                    !.ObservedTokensWarming = FALSE]
            ELSE IF st.unavailableObservedCount > 0
            THEN [windowed EXCEPT
                    !.ObservedTokensStatus =
                        observedStatus(st.anyObservedAvailable, st.unavailableObservedCount),
                    !.ObservedTokensNote = <<"token estimate warming or unavailable">>,
                    !.ObservedTokensWarming = st.anyObservedWarming]
            ELSE windowed
    IN  [observed EXCEPT !.Warnings = dedupeStrings(observed.Warnings)]

\* Fetcher.refreshAccounts(now, false) as run at the top of fetchMultiAccount:
\* nothing happens before the refresh interval has elapsed; after it the
\* loader runs.  loadMonitorAccounts fails exactly when defaultCodexHome does,
\* and the note then holds the error; the homes on disk do not change here,
\* so a load that succeeds hands replaceAccountFetchers the running homes.
refreshAccounts(note, e, due) ==
    IF ~due THEN note
    ELSE IF defaultCodexHome(e)[2] # None THEN defaultCodexHome(e)[2][1]
    ELSE <<>>

\* Fetch is called: refresh the accounts, then spawn one worker per account
StartFetch ==
    /\ \E due \in BOOLEAN :
          initializationNote' = refreshAccounts(initializationNote, env, due)
    /\ phase' = "fetching"
    /\ pc' = [i \in Workers |-> "wait"]
    /\ sem' = 0
    /\ calls' = [i \in Workers |-> <<>>]
    /\ pending' = [i \in Workers |-> None]
    /\ results' = [i \in Workers |-> None]
    /\ out' = None
    /\ outErr' = None
    /\ UNCHANGED <<accounts, server, env, round, keyHistory>>
    /\ UNCHANGED componentVars

\* the first Fetch after construction
FirstFetch ==
    /\ phase = "idle"
    /\ StartFetch

\* a later Fetch (the polling loop of the UI)
Refetch ==
    /\ phase = "returned"
    /\ round < MaxRounds
    /\ StartFetch

\* wg.Wait() has returned: merge the results and return
Aggregate ==
    /\ phase = "fetching"
    /\ \A i \in Workers : pc[i] = "done"
    /\ LET activeHome == resolveActiveCodexHome(env)
           st == Loop(LoopInit(initializationNote), results, 1, activeHome)
       IN  /\ IF aggregateFails(st)
              THEN /\ out' = None
                   /\ outErr' = Some(<<"all account fetches failed and observed tokens are unavailable">>)
              ELSE /\ \E rows \in accountSummariesFromIdentityMap(st.accountByIdentity) :
                          out' = Some(BuildSummary(st, rows, activeHome, 1))
                   /\ outErr' = None
           /\ keyHistory' =
                 [i \in Workers |->
                     Append(keyHistory[i],
                            [key |-> accountIdentityOrHomeKey(results[i][1].account,
                                                              results[i][1].codexHome),
                             via |-> results[i][1].account.Source])]
    /\ phase' = "returned"
    /\ round' = round + 1
    /\ UNCHANGED <<accounts, server, initializationNote, env, pc, sem, calls, pending, results>>
    /\ UNCHANGED componentVars

Next ==
    \/ FirstFetch
    \/ \E i \in Workers : Acquire(i)
    \/ \E i \in Workers : PrimaryReturns(i)
    \/ \E i \in Workers : FallbackReturns(i)
    \/ Aggregate

Spec == Init /\ [][Next]_vars

NextRefetch ==
    \/ Next
    \/ Refetch

\* repeated fetches of a single account
InitRefetch == Init /\ NumAccounts = 1

SpecRefetch == InitRefetch /\ [][NextRefetch]_vars

-----------------------------------------------------------------------------
(* The fetcher at rest, for the specifications of the single components *)

FetcherIdle ==
    /\ accounts = <<>>
    /\ server = <<>>
    /\ initializationNote = <<>>
    /\ env = [CODEX_HOME |-> <<>>, HOME |-> <<>>]
    /\ phase = "idle"
    /\ pc = <<>>
    /\ sem = 0
    /\ calls = <<>>
    /\ pending = <<>>
    /\ results = <<>>
    /\ out = None
    /\ outErr = None
    /\ round = 0
    /\ keyHistory = <<>>

-----------------------------------------------------------------------------
(* AppServerSource: auth state and session life cycle *)

AuthReadings == {"", "fp-a", "fp-b"}
authChangedWarning == "auth state changed; restarted app-server session"

\* the process a session object currently runs (0: none, cmd == nil)
PidOf(session) == IF session = None THEN 0 ELSE session[1].pid

\* appServerSession.close: kill the process; the read loop then clears cmd
KillProcess(ps, pid) ==
    IF pid = 0 THEN ps ELSE [ps EXCEPT ![pid] = "exited"]

\* variant: the session is dropped without being closed
resetSession_leak(src, ps) ==
    [src |-> [src EXCEPT !.session = None], procs |-> ps]

\* AppServerSource.resetSession
resetSession(src, ps) ==
    [src |-> [src EXCEPT !.session = None],
     procs |-> KillProcess(ps, PidOf(src.session))]

\* variant: an unreadable auth file is never a change
refreshAuthState_ignoresError(src, ps, reading) ==
    IF reading = "" THEN [src |-> src, procs |-> ps, warning |-> ""]
    ELSE IF src.authFingerprint = ""
    THEN [src |-> [src EXCEPT !.authFingerprint = reading], procs |-> ps, warning |-> ""]
    ELSE IF src.authFingerprint = reading
    THEN [src |-> src, procs |-> ps, warning |-> ""]
    ELSE LET r == resetSession(src, ps)
         IN  [src |-> [r.src EXCEPT !.authFingerprint = reading], procs |-> r.procs,
              warning |-> authChangedWarning]

\* AppServerSource.refreshAuthState; reading "" is an error of fingerprintFn
refreshAuthState(src, ps, reading) ==
    IF reading = ""
    THEN IF src.authFingerprint = ""
         THEN [src |-> src, procs |-> ps, warning |-> ""]
         ELSE LET r == resetSession(src, ps)
              IN  [src |-> [r.src EXCEPT !.authFingerprint = ""], procs |-> r.procs,
                   warning |-> authChangedWarning]
    ELSE IF src.authFingerprint = ""
    THEN [src |-> [src EXCEPT !.authFingerprint = reading], procs |-> ps, warning |-> ""]
    ELSE IF src.authFingerprint = reading
    THEN [src |-> src, procs |-> ps, warning |-> ""]
    ELSE LET r == resetSession(src, ps)
         IN  [src |-> [r.src EXCEPT !.authFingerprint = reading], procs |-> r.procs,
              warning |-> authChangedWarning]

\* Fetch, lines 76-82: take reqMu and refresh the auth state
FetchBegin ==
    /\ srcPc = "idle"
    /\ authTrace.fetches < MaxFetches
    /\ LET r == refreshAuthState(appServer, procs, authFile)
       IN  /\ appServer' = r.src
           /\ procs' = r.procs
           /\ authTrace' =
                 [fetches |-> authTrace.fetches + 1,
                  observed |-> authFile,
                  prevObserved |-> IF authTrace.fetches = 0 THEN None
                                   ELSE Some(authTrace.observed),
                  leftPid |-> PidOf(appServer.session),
                  requests |-> <<>>,
                  snapshot |-> None,
                  result |-> None,
                  refresh |-> Some([storedBefore |-> appServer.authFingerprint,
                                    sessionBefore |-> appServer.session,
                                    procsBefore |-> procs,
                                    reading |-> authFile,
                                    warning |-> r.warning])]
    /\ srcPc' = "ensure"
    /\ UNCHANGED authFile
    /\ UNCHANGED <<laterVars, fetcherVars, estimatorVars, reloadVars, scanVars, window>>

\* the answers to account/rateLimits/read: the snapshot with its two window
\* pointers and the number of entries of rateLimitsByLimitId
RateLimitsResults ==
    { [RateLimits |-> [PlanType |-> <<"plus">>, Primary |-> Some(50), Secondary |-> Some(0)],
       RateLimitsByLimitID |-> 2],
      [RateLimits |-> [PlanType |-> <<"plus">>, Primary |-> None, Secondary |-> Some(0)],
       RateLimitsByLimitID |-> 1],
      [RateLimits |-> [PlanType |-> <<>>, Primary |-> Some(100), Secondary |-> None],
       RateLimitsByLimitID |-> 0] }

\* what request returns for account/read: its error, or the decoded result
requestFailed(err) == [err |-> err, Account |-> None, RequiresOpenAIAuth |-> FALSE]
AccountReadResults(pid) ==
    IF pid = 0 THEN { requestFailed(<<"app-server process not started">>) }
    ELSE { requestFailed(<<"account/read timeout: context canceled">>),
           requestFailed(<<"account/read failed: boom (code 1)">>),
           [err |-> <<>>, Account |-> None, RequiresOpenAIAuth |-> FALSE],
           [err |-> <<>>, Account |-> None, RequiresOpenAIAuth |-> TRUE],
           [err |-> <<>>, Account |-> Some([Email |-> <<" ", "a", "@", "x">>]),
            RequiresOpenAIAuth |-> FALSE] }

\* appServerSession.fetchAccount
fetchAccount(out_) ==
    IF out_.err # <<>> THEN [identity |-> None, err |-> out_.err]
    ELSE IF out_.Account = None
    THEN [identity |-> None,
          err |-> IF out_.RequiresOpenAIAuth THEN <<"account/read requires OpenAI auth">>
                  ELSE <<"account/read missing account">>]
    ELSE [identity |-> Some([Email |-> TrimSpace(out_.Account[1].Email),
                             AccountID |-> <<>>, UserID |-> <<>>]),
          err |-> <<>>]

\* Fetch, lines 95-98
additionalLimits(result) ==
    IF result.RateLimitsByLimitID > 1 THEN result.RateLimitsByLimitID - 1 ELSE 0

\* normalizeSummary, lines 41-46, then the summary of the two windows
normalizeChecked(source, snapshot, additionalLimitCount, identity, warnings, now) ==
    IF snapshot.Primary = None
    THEN [summary |-> None, err |-> <<"missing primary window">>]
    ELSE IF snapshot.Secondary = None
    THEN [summary |-> None, err |-> <<"missing secondary window">>]
    ELSE [summary |-> Some(normalizeSummary(source,
                               [PlanType |-> snapshot.PlanType,
                                Primary |-> snapshot.Primary[1],
                                Secondary |-> snapshot.Secondary[1]],
                               additionalLimitCount, identity, warnings, now)),
          err |-> <<>>]

failedFetch(err) == [summary |-> None, err |-> err, account |-> None]

\* variant: the error of fetchAccount is returned
afterFetchAccount_returnsError(result, account, warnings, now) ==
    IF account.err # <<>>
    THEN [summary |-> None, err |-> account.err, account |-> Some(account)]
    ELSE LET n == normalizeChecked(AppServerName, result.RateLimits, additionalLimits(result),
                                   account.identity, warnings, now)
         IN  [summary |-> n.summary, err |-> n.err, account |-> Some(account)]

\* Fetch, lines 100-105: the error of fetchAccount becomes a warning
afterFetchAccount(result, account, warnings, now) ==
    LET all == IF account.err # <<>>
               THEN Append(warnings, <<"account identity unavailable: ">> \o account.err)
               ELSE warnings
        n == normalizeChecked(AppServerName, result.RateLimits, additionalLimits(result),
                              account.identity, all, now)
    IN  [summary |-> n.summary, err |-> n.err, account |-> Some(account)]

\* ensureSession: create the session lazily, start its process, shake hands
EnsureSession ==
    /\ srcPc = "ensure"
    /\ LET session == IF appServer.session = None
                      THEN [pid |-> 0, initialized |-> FALSE]
                      ELSE appServer.session[1]
       IN  IF session.pid # 0 /\ session.initialized
           THEN /\ srcPc' = "limits"
                /\ UNCHANGED <<appServer, procs, authTrace>>
           ELSE \E outcome \in {"start failed", "initialize failed", "ok"} :
                  LET pid == IF session.pid # 0 THEN session.pid ELSE Len(procs) + 1
                      started == IF session.pid # 0 THEN procs ELSE Append(procs, "running")
                  IN  CASE outcome = "start failed" ->
                             /\ session.pid = 0
                             /\ appServer' = [appServer EXCEPT !.session = Some(session)]
                             /\ srcPc' = "idle"
                             /\ authTrace' = [authTrace EXCEPT !.result =
                                   Some(failedFetch(<<"start app-server source">>))]
                             /\ UNCHANGED procs
                        [] outcome = "initialize failed" ->
                             /\ appServer' = [appServer EXCEPT
                                                !.session = Some([pid |-> 0, initialized |-> FALSE])]
                             /\ procs' = KillProcess(started, pid)
                             /\ authTrace' = [authTrace EXCEPT
                                   !.requests = Append(@, pid),
                                   !.result = Some(failedFetch(<<"initialize app-server source">>))]
                             /\ srcPc' = "idle"
                        [] OTHER ->
                             /\ appServer' = [appServer EXCEPT
                                                !.session = Some([pid |-> pid, initialized |-> TRUE])]
                             /\ procs' = started
                             /\ authTrace' = [authTrace EXCEPT !.requests = Append(@, pid)]
                             /\ srcPc' = "limits"
    /\ UNCHANGED authFile
    /\ UNCHANGED <<laterVars, fetcherVars, estimatorVars, reloadVars, scanVars, window>>

\* session.fetchRateLimits; on error the session is reset
RateLimits ==
    /\ srcPc = "limits"
    /\ LET pid == PidOf(appServer.session)
       IN  IF pid = 0
           THEN LET r == resetSession(appServer, procs)
                IN  /\ appServer' = r.src
                    /\ procs' = r.procs
                    /\ srcPc' = "idle"
                    /\ authTrace' = [authTrace EXCEPT !.result =
                          Some(failedFetch(<<"app-server process not started">>))]
           ELSE \/ \E result \in RateLimitsResults :
                      /\ authTrace' = [authTrace EXCEPT !.requests = Append(@, pid),
                                                        !.snapshot = Some(result)]
                      /\ srcPc' = "account"
                      /\ UNCHANGED <<appServer, procs>>
                \/ LET r == resetSession(appServer, procs)
                   IN  /\ authTrace' = [authTrace EXCEPT
                             !.requests = Append(@, pid),
                             !.result = Some(failedFetch(<<"account/rateLimits/read failed">>))]
                       /\ appServer' = r.src
                       /\ procs' = r.procs
                       /\ srcPc' = "idle"
    /\ UNCHANGED authFile
    /\ UNCHANGED <<laterVars, fetcherVars, estimatorVars, reloadVars, scanVars, window>>

\* session.fetchAccount; an error only becomes a warning, then Fetch returns
\* what normalizeSummary makes of the snapshot
Account ==
    /\ srcPc = "account"
    /\ LET pid == PidOf(appServer.session)
           warning == authTrace.refresh[1].warning
           warnings == IF warning = "" THEN <<>> ELSE << <<warning>> >>
       IN  \E out_ \in AccountReadResults(pid) :
              authTrace' = [authTrace EXCEPT
                  !.requests = IF pid = 0 THEN @ ELSE Append(@, pid),
                  !.result = Some(afterFetchAccount(authTrace.snapshot[1], fetchAccount(out_),
                                                    warnings,
                                                    FetchTime([name |-> AppServerName])))]
    /\ srcPc' = "idle"
    /\ UNCHANGED <<appServer, procs, authFile>>
    /\ UNCHANGED <<laterVars, fetcherVars, estimatorVars, reloadVars, scanVars, window>>

\* the user signs out, signs in, or switches the account
AuthChange ==
    /\ authTrace.fetches < MaxFetches
    /\ \E reading \in AuthReadings \ {authFile} : authFile' = reading
    /\ UNCHANGED <<appServer, procs, srcPc, authTrace>>
    /\ UNCHANGED <<laterVars, fetcherVars, estimatorVars, reloadVars, scanVars, window>>

\* the child process ends by itself; readLoop clears cmd and initialized
ProcExit ==
    /\ PidOf(appServer.session) # 0
    /\ procs' = KillProcess(procs, PidOf(appServer.session))
    /\ appServer' = [appServer EXCEPT !.session = Some([pid |-> 0, initialized |-> FALSE])]
    /\ UNCHANGED <<authFile, srcPc, authTrace>>
    /\ UNCHANGED <<laterVars, fetcherVars, estimatorVars, reloadVars, scanVars, window>>

\* AppServerSource.Close between two fetches
SourceClose ==
    /\ srcPc = "idle"
    /\ appServer.session # None
    /\ LET r == resetSession(appServer, procs)
       IN  /\ appServer' = r.src
           /\ procs' = r.procs
    /\ UNCHANGED <<authFile, srcPc, authTrace>>
    /\ UNCHANGED <<laterVars, fetcherVars, estimatorVars, reloadVars, scanVars, window>>

InitAppServer ==
    /\ FetcherIdle
    /\ AppServerIdle
    /\ EstimatorIdle
    /\ ReloadIdle
    /\ ScanIdle
    /\ WindowIdle
    /\ LaterIdle

NextAppServer ==
    \/ FetchBegin
    \/ EnsureSession
    \/ RateLimits
    \/ Account
    \/ AuthChange
    \/ ProcExit
    \/ SourceClose

SpecAppServer == InitAppServer /\ [][NextAppServer]_vars

-----------------------------------------------------------------------------
(* observedTokenEstimator: cache, staleness and background refresh *)

ttl == 1
EstimateHomes == {<<>>, <<" ">> \o HomeB, HomeA, HomeB, HomeC, <<"/f">>}
\* os.Stat: the directories that exist; "/f" is a file and HomeC is missing
StatOf(home) ==
    IF home \in {HomeA, HomeB} THEN "dir" ELSE IF home = <<"/f">> THEN "file" ELSE "missing"

unavailableEstimate(note) ==
    [Window5h |-> ZeroBreakdown, WindowWeekly |-> ZeroBreakdown,
     Status |-> observedTokensStatusUnavailable, Note |-> note, Warming |-> FALSE,
     Warnings |-> <<>>]

\* the estimate of a first asynchronous call, with its warming flag
warmingEstimate ==
    [unavailableEstimate(<<"warming token estimate">>) EXCEPT !.Warming = TRUE]

\* computeObservedTokenEstimate: the totals of the home's journal, or a walk error
ComputeOutcomes(home) ==
    { [err |-> Some(<<"walk sessions failed">>),
       estimate |-> unavailableEstimate(<<"walk sessions failed">>)],
      [err |-> None,
       estimate |-> [Window5h |-> Breakdown(JournalOf(home)[1]),
                     WindowWeekly |-> Breakdown(JournalOf(home)[2]),
                     Status |-> observedTokensStatusEstimated,
                     Note |-> <<"local estimate">>, Warming |-> FALSE,
                     Warnings |-> <<>>]] }

HasCached(e, home) == home \in DOMAIN e.cache
CachePut(e, home, now, estimate) ==
    [e EXCEPT !.cache = [h \in DOMAIN e.cache \cup {home} |->
                            IF h = home THEN [at |-> now, estimate |-> estimate]
                            ELSE e.cache[h]]]

\* variant: every stale or cold call launches a recomputation
refreshRunning_never(e, home) == FALSE

\* _, running := e.inflight[home]
refreshRunning(e, home) == home \in e.inflight

\* go e.refreshAsync(home): one more goroutine for the home
launched(e, home, now) ==
    [h \in DOMAIN e.refreshes \cup {home} |->
        IF h \in DOMAIN e.refreshes /\ h = home THEN Append(e.refreshes[h], now)
        ELSE IF h = home THEN <<now>>
        ELSE e.refreshes[h]]

\* variant: no background recomputation is launched
startRefresh_never(e, home, now) == e

\* Estimate, lines 154-157: launch refreshAsync unless one is in flight
startRefresh(e, home, now) ==
    IF refreshRunning(e, home) THEN e
    ELSE [e EXCEPT !.inflight = @ \cup {home}, !.refreshes = launched(e, home, now)]

\* variant: an entry is fresh only while younger than the ttl
cacheFresh_strict(e, home, now) == HasCached(e, home) /\ now - e.cache[home].at < ttl

\* hasCached && now.Sub(cached.at) <= e.ttl
cacheFresh(e, home, now) == HasCached(e, home) /\ now - e.cache[home].at <= ttl

\* observedTokenEstimator.Estimate; computed is what an inline computation yields
Estimate(e, codexHome, now, computed) ==
    LET home == TrimSpace(codexHome)
    IN  IF home = <<>>
        THEN [e |-> e, err |-> Some(<<"missing codex home">>),
              estimate |-> unavailableEstimate(<<"missing codex home">>)]
        ELSE IF StatOf(home) = "missing"
        THEN [e |-> e, err |-> Some(<<"stat codex home">>),
              estimate |-> unavailableEstimate(<<"codex home is not accessible">>)]
        ELSE IF StatOf(home) # "dir"
        THEN [e |-> e, err |-> Some(<<"codex home is not a directory">>),
              estimate |-> unavailableEstimate(<<"codex home is not a directory">>)]
        ELSE IF cacheFresh(e, home, now)
        THEN [e |-> e, err |-> None,
              estimate |-> [e.cache[home].estimate EXCEPT
                              !.Note = <<"local estimate (updated ", now - e.cache[home].at, " ago)">>]]
        ELSE IF ~e.async
        THEN IF computed.err # None
             THEN [e |-> e, err |-> computed.err,
                   estimate |-> unavailableEstimate(computed.err[1])]
             ELSE [e |-> CachePut(e, home, now, computed.estimate), err |-> None,
                   estimate |-> computed.estimate]
        ELSE IF HasCached(e, home)
        THEN [e |-> startRefresh(e, home, now), err |-> None,
              estimate |-> [e.cache[home].estimate EXCEPT
                              !.Note = <<"local estimate (refreshing)">>]]
        ELSE [e |-> startRefresh(e, home, now), err |-> None, estimate |-> warmingEstimate]

EstimateCall ==
    /\ IF estimateTrace = None THEN TRUE ELSE estimateTrace[1].n < MaxEstimates
    /\ \E codexHome \in EstimateHomes :
         \E computed \in ComputeOutcomes(TrimSpace(codexHome)) :
           LET r == Estimate(estimator, codexHome, clock, computed)
           IN  /\ estimator' = r.e
               /\ estimateTrace' =
                     Some([n |-> IF estimateTrace = None THEN 1 ELSE estimateTrace[1].n + 1,
                           codexHome |-> codexHome,
                           now |-> clock,
                           hadCache |-> HasCached(estimator, TrimSpace(codexHome)),
                           estimate |-> r.estimate,
                           err |-> r.err])
    /\ UNCHANGED clock
    /\ UNCHANGED <<laterVars, fetcherVars, appServerVars, reloadVars, scanVars, window>>

\* the goroutines of the home without the one that returns
returned(e, home) ==
    [h \in {x \in DOMAIN e.refreshes : x # home \/ Len(e.refreshes[x]) > 1} |->
        IF h = home THEN Tail(e.refreshes[h]) ELSE e.refreshes[h]]

\* variant: a failed recomputation returns before the mark is deleted
afterRefresh_keepsMarkOnError(e, home, now, computed) ==
    IF computed.err # None THEN e
    ELSE CachePut([e EXCEPT !.inflight = @ \ {home}], home, now, computed.estimate)

\* refreshAsync after computeObservedTokenEstimate has returned, under e.mu
afterRefresh(e, home, now, computed) ==
    LET done == [e EXCEPT !.inflight = @ \ {home}]
    IN  IF computed.err # None THEN done
        ELSE CachePut(done, home, now, computed.estimate)

\* a refreshAsync goroutine of the home returns: it read now := time.Now()
\* when it began, at or after its launch
RefreshAsync(home) ==
    /\ home \in DOMAIN estimator.refreshes
    /\ \E now \in estimator.refreshes[home][1]..clock :
         \E computed \in ComputeOutcomes(home) :
           estimator' =
              [afterRefresh(estimator, home, now, computed) EXCEPT
                  !.refreshes = returned(estimator, home),
                  !.refreshed = Some([home |-> home, now |-> now, err |-> computed.err])]
    /\ UNCHANGED <<clock, estimateTrace>>
    /\ UNCHANGED <<laterVars, fetcherVars, appServerVars, reloadVars, scanVars, window>>

Tick ==
    /\ clock < MaxClock
    /\ clock' = clock + 1
    /\ UNCHANGED <<estimator, estimateTrace>>
    /\ UNCHANGED <<laterVars, fetcherVars, appServerVars, reloadVars, scanVars, window>>

InitEstimator ==
    /\ FetcherIdle
    /\ AppServerIdle
    /\ \E async \in BOOLEAN : EstimatorAt(async)
    /\ ReloadIdle
    /\ ScanIdle
    /\ WindowIdle
    /\ LaterIdle

NextEstimator ==
    \/ EstimateCall
    \/ \E home \in EstimateHomes : RefreshAsync(home)
    \/ Tick

SpecEstimator == InitEstimator /\ [][NextEstimator]_vars

\* a launched goroutine runs: computeObservedTokenEstimate walks a finite tree
\* and reads finite files, and e.mu is never held across a blocking call
SpecEstimatorFair ==
    /\ InitEstimator
    /\ [][NextEstimator]_vars
    /\ \A home \in EstimateHomes : WF_vars(RefreshAsync(home))

-----------------------------------------------------------------------------
(* Fetcher.refreshAccounts, replaceAccountFetchers and Close: the sources' life *)

\* what f.accountLoader can hand over: entries with distinct paths as written,
\* sorted by label and path; "/lb" is a symbolic link to HomeB
LoadedAccounts ==
    { [Label |-> <<"B">>, CodexHome |-> HomeB],
      [Label |-> <<"a">>, CodexHome |-> HomeB],
      [Label |-> <<"a">>, CodexHome |-> <<"/lb">>],
      [Label |-> <<"a">>, CodexHome |-> HomeC] }

MonitorAccountLess(x, y) ==
    IF x.Label # y.Label THEN StrLess(x.Label, y.Label)
    ELSE StrLess(x.CodexHome, y.CodexHome)

LoaderLists ==
    { list \in UNION { [1..n -> LoadedAccounts] : n \in 0..MaxListLen } :
        \A i, j \in DOMAIN list :
            i < j => /\ list[i].CodexHome # list[j].CodexHome
                     /\ MonitorAccountLess(list[i], list[j]) }

ReloadEnv == [CODEX_HOME |-> <<>>, HOME |-> <<"/h">>]

HomesOf(running) ==
    { normalizeHome(running[i].account.CodexHome) : i \in DOMAIN running } \ {<<>>}
ListHomes(list) == { normalizeHome(list[k].CodexHome) : k \in DOMAIN list } \ {<<>>}

\* replaceAccountFetchers, lines 315-322: a later fetcher of a home overwrites
\* an earlier one
existingByHome(running) ==
    [home \in HomesOf(running) |->
        running[CHOOSE i \in DOMAIN running :
                   /\ normalizeHome(running[i].account.CodexHome) = home
                   /\ \A j \in DOMAIN running :
                         normalizeHome(running[j].account.CodexHome) = home => j <= i]]

\* replaceAccountFetchers, lines 326-346: reuse the fetcher of a known home or
\* create its two sources
RECURSIVE replaceLoop(_, _, _, _, _)
replaceLoop(list, k, existing, next, srcs) ==
    IF k > Len(list) THEN [next |-> next, sources |-> srcs]
    ELSE LET home == normalizeHome(list[k].CodexHome)
             account == [list[k] EXCEPT !.CodexHome = home]
         IN  IF home = <<>> THEN replaceLoop(list, k + 1, existing, next, srcs)
             ELSE IF home \in DOMAIN existing
             THEN replaceLoop(list, k + 1, existing,
                              Append(next, [existing[home] EXCEPT !.account = account]), srcs)
             ELSE replaceLoop(list, k + 1, existing,
                              Append(next, [account |-> account,
                                            primary |-> Len(srcs) + 1,
                                            fallback |-> Len(srcs) + 2]),
                              srcs \o <<"open", "open">>)

closeSources(srcs, ids) == [id \in DOMAIN srcs |-> IF id \in ids THEN "closed" ELSE srcs[id]]

replaceAccountFetchers(running, list, srcs) ==
    LET existing == existingByHome(running)
        built == replaceLoop(list, 1, existing, <<>>, srcs)
        usedHomes == HomesOf(built.next)
        dropped == DOMAIN existing \ usedHomes
    IN  [accounts |-> built.next,
         sources |-> closeSources(built.sources,
                                  UNION { {existing[h].primary, existing[h].fallback} :
                                          h \in dropped })]

\* the list refreshAccounts passes on: an empty one becomes the default account
effectiveList(list, e) ==
    IF list = <<>> /\ defaultCodexHome(e)[2] = None
    THEN << [Label |-> <<"default">>, CodexHome |-> defaultCodexHome(e)[1]] >>
    ELSE list

\* accountRefreshInterval: 60 * time.Second, in units of 30 s
accountRefreshInterval == 2

\* variant: every fetch reloads the accounts
refreshDue_always(force, interval, last, now) == TRUE

\* refreshAccounts, lines 291-295: the early return is not taken
refreshDue(force, interval, last, now) ==
    ~(~force /\ interval > 0 /\ last # None /\ now - last[1] < interval)

\* refreshAccounts(now, force): by the constructor (forced; the tests also call
\* it unforced on a new Fetcher) and then by every fetchMultiAccount, which
\* runs while f.accounts is not empty.  now is the wall clock (time.Now().UTC()
\* carries no monotonic reading); the loader fails or hands over a list.
Reload ==
    /\ ~reloadTrace.closed
    /\ reloadTrace.reloads < MaxReloads
    /\ refresh.call # None => accountFetchers # <<>>
    /\ \E now \in 0..MaxWallClock :
       \E force \in (IF refresh.call = None THEN BOOLEAN ELSE {FALSE}) :
         LET call == [now |-> now, force |-> force,
                      last |-> refresh.accountsLastRefreshedAt, loaded |-> "no"]
         IN  IF ~refreshDue(force, accountRefreshInterval, refresh.accountsLastRefreshedAt, now)
             THEN /\ refresh' = [refresh EXCEPT
                                    !.call = Some(call)]
                  /\ UNCHANGED <<accountFetchers, sources, reloadTrace>>
             ELSE \/ /\ refresh' = [accountsLastRefreshedAt |-> Some(now),
                                    call |-> Some([call EXCEPT !.loaded = "error"])]
                     /\ UNCHANGED <<accountFetchers, sources, reloadTrace>>
                  \/ \E loaded \in LoaderLists :
                       LET list == effectiveList(loaded, ReloadEnv)
                           r == replaceAccountFetchers(accountFetchers, list, sources)
                       IN  /\ accountFetchers' = r.accounts
                           /\ sources' = r.sources
                           /\ reloadTrace' = [reloads |-> reloadTrace.reloads + 1,
                                              before |-> accountFetchers,
                                              list |-> list,
                                              sourcesBefore |-> sources,
                                              closed |-> FALSE]
                           /\ refresh' = [accountsLastRefreshedAt |-> Some(now),
                                          call |-> Some([call EXCEPT !.loaded = "list"])]
    /\ UNCHANGED <<laterVars, fetcherVars, appServerVars, estimatorVars, scanVars, window>>

\* Fetcher.Close: close the sources of every running account fetcher
FetcherClose ==
    /\ ~reloadTrace.closed
    /\ reloadTrace.reloads > 0
    /\ sources' = closeSources(sources,
                     UNION { {accountFetchers[i].primary, accountFetchers[i].fallback} :
                             i \in DOMAIN accountFetchers })
    /\ reloadTrace' = [reloadTrace EXCEPT !.closed = TRUE]
    /\ UNCHANGED <<accountFetchers, refresh>>
    /\ UNCHANGED <<laterVars, fetcherVars, appServerVars, estimatorVars, scanVars, window>>

InitReload ==
    /\ FetcherIdle
    /\ AppServerIdle
    /\ EstimatorIdle
    /\ ReloadIdle
    /\ ScanIdle
    /\ WindowIdle
    /\ LaterIdle

NextReload ==
    \/ Reload
    \/ FetcherClose

SpecReload == InitReload /\ [][NextReload]_vars

-----------------------------------------------------------------------------
(* computeObservedTokenEstimate: reading the journal files line by line *)

\* tokenUsageTotal, with one input and one output field for the five split fields
ZeroUsage == [TotalTokens |-> 0, InputTokens |-> 0, OutputTokens |-> 0]
UsageTotals ==
    { [TotalTokens |-> 2, InputTokens |-> 2, OutputTokens |-> 0],
      [TotalTokens |-> 3, InputTokens |-> 1, OutputTokens |-> 2],
      [TotalTokens |-> 5, InputTokens |-> 3, OutputTokens |-> 2] }
LastUsages == { ZeroUsage, [TotalTokens |-> 1, InputTokens |-> 1, OutputTokens |-> 0] }
EventTimes == 0..2
CutoffPairs == { <<c5h, c1w>> \in EventTimes \X EventTimes : c5h >= c1w }

\* the lines of a journal file: token_count events, lines json.Unmarshal
\* rejects, records of another type, events with a timestamp that does not
\* parse; long marks a line of more than 4 MiB, here one that is no JSON
JournalLines ==
    { [kind |-> "token_count", time |-> t, total |-> total, last |-> last, long |-> FALSE] :
        t \in EventTimes, total \in UsageTotals, last \in LastUsages }
    \cup { [kind |-> k, time |-> 0, total |-> ZeroUsage, last |-> ZeroUsage, long |-> FALSE] :
             k \in {"unparsable", "other", "bad timestamp"} }
    \cup { [kind |-> "unparsable", time |-> 0, total |-> ZeroUsage, last |-> ZeroUsage,
            long |-> TRUE] }

hasUsage(t) == t.TotalTokens > 0 \/ t.InputTokens > 0 \/ t.OutputTokens > 0

\* variant: the plain difference
nonNegativeDelta_plain(prev, current) == current - prev

nonNegativeDelta(prev, current) == IF current <= prev THEN 0 ELSE current - prev

\* tokenUsageDelta: <<delta, ok>>
tokenUsageDelta(prev, current) ==
    IF current.TotalTokens < prev.TotalTokens THEN <<ZeroUsage, FALSE>>
    ELSE IF current.TotalTokens - prev.TotalTokens <= 0 THEN <<ZeroUsage, TRUE>>
    ELSE << [TotalTokens |-> current.TotalTokens - prev.TotalTokens,
             InputTokens |-> nonNegativeDelta(prev.InputTokens, current.InputTokens),
             OutputTokens |-> nonNegativeDelta(prev.OutputTokens, current.OutputTokens)],
            TRUE >>

\* variant: an event that adds nothing to the total is counted by its last usage
usageForEvent_lastOnZero(current, last, previous) ==
    IF previous # None /\ tokenUsageDelta(previous[1], current)[2]
          /\ tokenUsageDelta(previous[1], current)[1].TotalTokens > 0
    THEN <<tokenUsageDelta(previous[1], current)[1], TRUE>>
    ELSE IF hasUsage(last) THEN <<last, TRUE>>
    ELSE <<ZeroUsage, FALSE>>

\* usageForEvent: <<usage, ok>>
usageForEvent(current, last, previous) ==
    IF previous # None /\ tokenUsageDelta(previous[1], current)[2]
    THEN IF tokenUsageDelta(previous[1], current)[1].TotalTokens > 0
         THEN <<tokenUsageDelta(previous[1], current)[1], TRUE>>
         ELSE <<ZeroUsage, FALSE>>
    ELSE IF hasUsage(last) THEN <<last, TRUE>>
    ELSE <<ZeroUsage, FALSE>>

\* tokenAccumulator.addTokenUsage
addTokenUsage(a, usage) ==
    IF usage.TotalTokens <= 0 THEN a
    ELSE [Total |-> a.Total + usage.TotalTokens,
          Input |-> a.Input + usage.InputTokens,
          Output |-> a.Output + usage.OutputTokens,
          HasSplit |-> TRUE]

\* tokenAccumulator.add
add(a, other) ==
    [Total |-> a.Total + other.Total,
     Input |-> a.Input + other.Input,
     Output |-> a.Output + other.Output,
     HasSplit |-> a.HasSplit \/ other.HasSplit]

\* variant: the week holds only what the five hours do not
addToWindows_disjoint(s, usage, eventTime) ==
    IF eventTime >= s.cutoff5h
    THEN [s EXCEPT !.sum5h = addTokenUsage(@, usage)]
    ELSE [s EXCEPT !.sum1w = addTokenUsage(@, usage)]

\* estimateTokensFromFile, lines 300-303: the week, and the five hours inside it
addToWindows(s, usage, eventTime) ==
    [s EXCEPT !.sum1w = addTokenUsage(@, usage),
              !.sum5h = IF eventTime >= s.cutoff5h THEN addTokenUsage(@, usage) ELSE @]

\* variant: only an event of the last week becomes the anchor
anchorAfter_inWindowOnly(s, line) ==
    IF line.time >= s.cutoff1w THEN Some(line.total) ELSE s.prevTotal

\* current := rec.Payload.Info.Total; prevTotal = &current
anchorAfter(s, line) == Some(line.total)

\* variant: a line that does not parse also forgets the anchor
afterParseError_dropsAnchor(s) == [s EXCEPT !.parseErrCount = @ + 1, !.prevTotal = None]

\* parseErrCount++; continue
afterParseError(s) == [s EXCEPT !.parseErrCount = @ + 1]

\* estimateTokensFromFile: the body of the scanner loop for one line
scanLine(s, line) ==
    IF line.kind \in {"unparsable", "bad timestamp"}
    THEN afterParseError(s)
    ELSE IF line.kind # "token_count" THEN s
    ELSE LET usage == usageForEvent(line.total, line.last, s.prevTotal)
             counted == IF line.time >= s.cutoff1w /\ usage[2]
                        THEN addToWindows(s, usage[1], line.time)
                        ELSE s
         IN  [counted EXCEPT !.prevTotal = anchorAfter(s, line)]

\* scanner.Scan() stops at a line beyond the 4 MiB buffer and scanner.Err() is
\* bufio.ErrTooLong: estimateTokensFromFile returns no sums and the error, and
\* computeObservedTokenEstimate returns ObservedTokenEstimate{} with it
scanFailed(s) ==
    [s EXCEPT !.sum5h = ZeroAccumulator, !.sum1w = ZeroAccumulator,
              !.total5h = ZeroAccumulator, !.totalWeekly = ZeroAccumulator,
              !.warnings = <<>>, !.err = Some(<<"scan usage file">>)]

\* the file's warnings: the number of lines that did not parse
fileWarnings(s) ==
    IF s.parseErrCount > 0
    THEN << <<"skipped ", s.parseErrCount, " unparsable lines in ", s.file>> >>
    ELSE <<>>

ScanLine ==
    /\ scan.file <= MaxFiles
    /\ scan.lines < MaxLines
    /\ scan.err = None
    /\ \E line \in JournalLines :
         /\ scan' = [(IF line.long THEN scanFailed(scan) ELSE scanLine(scan, line))
                        EXCEPT !.lines = @ + 1]
         /\ scanTrace' =
               [n |-> scanTrace.n + 1,
                line |-> Some(line),
                accepted |-> IF line.kind = "token_count" THEN Some(line)
                             ELSE scanTrace.accepted,
                afterOld |-> IF line.kind = "token_count"
                             THEN /\ scanTrace.accepted # None
                                  /\ scanTrace.accepted[1].time < scan.cutoff1w
                             ELSE scanTrace.afterOld,
                skipped |-> IF line.kind \in {"unparsable", "bad timestamp"}
                            THEN scanTrace.skipped + 1 ELSE scanTrace.skipped,
                without |->
                    IF line.kind \in {"unparsable", "bad timestamp"} THEN scanTrace.without
                    ELSE LET r == scanLine([scan EXCEPT
                                               !.prevTotal = scanTrace.without.prevTotal,
                                               !.sum5h = scanTrace.without.sum5h,
                                               !.sum1w = scanTrace.without.sum1w], line)
                         IN  [prevTotal |-> r.prevTotal, sum5h |-> r.sum5h, sum1w |-> r.sum1w]]
    /\ UNCHANGED <<laterVars, fetcherVars, appServerVars, estimatorVars, reloadVars, window>>

\* the file ends: its sums join the totals, the next file starts afresh
FileEnd ==
    /\ scan.file <= MaxFiles
    /\ scan.err = None
    /\ scan' = [scan EXCEPT !.file = @ + 1,
                            !.total5h = add(@, scan.sum5h),
                            !.totalWeekly = add(@, scan.sum1w),
                            !.warnings = @ \o fileWarnings(scan),
                            !.prevTotal = None,
                            !.sum5h = ZeroAccumulator,
                            !.sum1w = ZeroAccumulator,
                            !.parseErrCount = 0]
    /\ scanTrace' = [NoScanTrace EXCEPT !.n = scanTrace.n]
    /\ UNCHANGED <<laterVars, fetcherVars, appServerVars, estimatorVars, reloadVars, window>>

InitScan ==
    /\ FetcherIdle
    /\ AppServerIdle
    /\ EstimatorIdle
    /\ ReloadIdle
    /\ \E c \in CutoffPairs : ScanAt(c[1], c[2])
    /\ WindowIdle
    /\ LaterIdle

NextScan ==
    \/ ScanLine
    \/ FileEnd

SpecScan == InitScan /\ [][NextScan]_vars

-----------------------------------------------------------------------------
(* toWindowSummary: a raw rate-limit window becomes a WindowSummary *)

\* rateLimitWindowRaw; resetsAt counts whole seconds
RawWindows ==
    { [UsedPercent |-> p, WindowDurationMins |-> m, ResetsAt |-> r] :
        p \in {0, 50, 100},
        m \in {None, Some(300)},
        r \in {None} \cup { Some(s) : s \in 0..MaxResetsAt } }

\* the clock counts half seconds
HalfSeconds(seconds) == 2 * seconds

\* int64(d.Seconds()): the conversion drops the fraction, towards zero
TruncatedSeconds(halves) ==
    IF halves >= 0 THEN halves \div 2 ELSE 0 - ((0 - halves) \div 2)

toWindowSummary(win, now) ==
    IF win.ResetsAt = None
    THEN [UsedPercent |-> win.UsedPercent, WindowDurationMins |-> win.WindowDurationMins,
          ResetsAt |-> None, SecondsUntilReset |-> None]
    ELSE [UsedPercent |-> win.UsedPercent, WindowDurationMins |-> win.WindowDurationMins,
          ResetsAt |-> win.ResetsAt,
          SecondsUntilReset |-> Some(TruncatedSeconds(HalfSeconds(win.ResetsAt[1]) - now))]

\* normalizeSummary converts a window of the snapshot at the time it reads
ToWindowSummary ==
    /\ \E win \in RawWindows, now \in 0..MaxNow :
          window' = Some([win |-> win, now |-> now, out |-> toWindowSummary(win, now)])
    /\ UNCHANGED <<laterVars, fetcherVars, appServerVars, estimatorVars, reloadVars, scanVars>>

InitWindow ==
    /\ FetcherIdle
    /\ AppServerIdle
    /\ EstimatorIdle
    /\ ReloadIdle
    /\ ScanIdle
    /\ WindowIdle
    /\ LaterIdle

NextWindow == ToWindowSummary

SpecWindow == InitWindow /\ [][NextWindow]_vars

-----------------------------------------------------------------------------
(* dedupeStrings on the warnings of a summary *)

\* warnings as the fetcher writes them: a failed account (part_000 line 119)
\* for the labels A, a and B, the fixed active-account warning, and entries
\* that are empty or padded with blanks
FetchFailedWarning(label) ==
    <<"account ">> \o Quote(label) \o <<" fetch failed: ", "boom">>

WarningPool ==
    { FetchFailedWarning(<<"A">>), FetchFailedWarning(<<"a">>), FetchFailedWarning(<<"B">>),
      <<"active account usage fetch failed", "; window cards are unavailable">>,
      <<>>, <<" ">>, <<" ", "boom">>, <<"boom", " ">> }

RECURSIVE WarningLists(_)
WarningLists(n) ==
    IF n = 0 THEN {<<>>}
    ELSE LET shorter == WarningLists(n - 1)
         IN  shorter \cup {Append(l, w) : l \in {x \in shorter : Len(x) = n - 1}, w \in WarningPool}

\* out.Warnings = dedupeStrings(out.Warnings)
DedupeWarnings ==
    /\ \E values \in WarningLists(MaxWarnings) :
          deduped' = Some([values |-> values, out |-> dedupeStrings(values)])
    /\ UNCHANGED <<olderVars, collectorVars, workerVars, sessionVars, tuiVars>>

InitWarnings ==
    /\ FetcherIdle
    /\ AppServerIdle
    /\ EstimatorIdle
    /\ ReloadIdle
    /\ ScanIdle
    /\ WindowIdle
    /\ LaterIdle

NextWarnings == DedupeWarnings

SpecWarnings == InitWarnings /\ [][NextWarnings]_vars

-----------------------------------------------------------------------------
(* accountCollector: the candidates of loadMonitorAccounts and their priorities *)

\* the (priority, allowWithoutSignals) pairs loadMonitorAccounts passes to add:
\* default home, CODEX_HOME, accounts file, discovery
CandidateKinds == { <<50, FALSE>>, <<40, TRUE>>, <<100, TRUE>>, <<30, FALSE>> }

CandidateLabels == { <<"a">>, <<"B">>, <<>> }

\* HomeB and the link /lb to it, HomeC, and an empty path
CandidateHomes == { HomeB, <<"/lb">>, HomeC, <<>> }

\* hasUsageSignals: HomeB holds an auth.json, HomeC holds nothing yet
hasUsageSignals(codexHome) == EvalSymlinks(codexHome) = HomeB

safeLabel(label) ==
    IF TrimSpace(label) = <<>> THEN <<"account">> ELSE TrimSpace(label)

\* the key of byHome: the canonical home
canonicalHome(codexHome) == normalizeHome(codexHome)

keepsExisting_always(existing, priority) == TRUE

\* if existing.priority >= priority { return }
keepsExisting(existing, priority) == existing.priority >= priority

\* the candidate enters the collector
accepted(codexHome, allowWithoutSignals) ==
    /\ canonicalHome(codexHome) # <<>>
    /\ allowWithoutSignals \/ hasUsageSignals(canonicalHome(codexHome))

collectorAdd(c, label, codexHome, priority, allowWithoutSignals) ==
    LET normalized == canonicalHome(codexHome)
    IN  IF ~accepted(codexHome, allowWithoutSignals) THEN c
        ELSE IF normalized \in DOMAIN c.byHome /\ keepsExisting(c.byHome[normalized], priority)
        THEN c
        ELSE [c EXCEPT !.byHome =
                 [h \in DOMAIN c.byHome \cup {normalized} |->
                     IF h = normalized
                     THEN [account |-> [Label |-> safeLabel(label), CodexHome |-> normalized],
                           priority |-> priority]
                     ELSE c.byHome[h]]]

\* the accounts sorted by label, then by home
toAccounts(c) ==
    LET homes == DOMAIN c.byHome
        n == Cardinality(homes)
    IN  CHOOSE list \in [1..n -> {c.byHome[h].account : h \in homes}] :
            /\ \A h \in homes : \E i \in 1..n : list[i] = c.byHome[h].account
            /\ \A i, j \in 1..n : i < j => MonitorAccountLess(list[i], list[j])

CollectorAdd ==
    /\ Len(candidates) < MaxCandidates
    /\ \E label \in CandidateLabels, codexHome \in CandidateHomes, kind \in CandidateKinds :
          /\ collector' = collectorAdd(collector, label, codexHome, kind[1], kind[2])
          /\ candidates' = Append(candidates,
                                  [label |-> label, codexHome |-> codexHome,
                                   priority |-> kind[1], allowWithoutSignals |-> kind[2]])
    /\ UNCHANGED <<olderVars, warningVars, workerVars, sessionVars, tuiVars>>

InitCollector ==
    /\ FetcherIdle
    /\ AppServerIdle
    /\ EstimatorIdle
    /\ ReloadIdle
    /\ ScanIdle
    /\ WindowIdle
    /\ LaterIdle

NextCollector == CollectorAdd

SpecCollector == InitCollector /\ [][NextCollector]_vars

-----------------------------------------------------------------------------
(* fetchAccountsConcurrent: the semaphore of the per-account goroutines *)

parallelismOf_uncapped(n) == n

\* parallelism := len(f.accounts); if parallelism > 4 { parallelism = 4 }
parallelismOf(n) == IF n > 4 THEN 4 ELSE n

\* sem <- struct{}{}: blocks while the channel of capacity parallelism is full
WorkerAcquire(i) ==
    /\ i \in DOMAIN workers.pc
    /\ workers.pc[i] = "started"
    /\ workers.sem < parallelismOf(Len(workers.pc))
    /\ workers' = [workers EXCEPT !.pc[i] = "fetching", !.sem = @ + 1]
    /\ UNCHANGED <<olderVars, warningVars, collectorVars, sessionVars, tuiVars>>

resultSlot_loopVariable(i) == Len(workers.pc)

\* i := i inside the loop: the goroutine of account i stores into results[i]
resultSlot(i) == i

\* results[i] = f.fetchAccountResult(...), then the deferred <-sem and wg.Done;
\* the result of account i is written as the number i
WorkerFinish(i) ==
    /\ i \in DOMAIN workers.pc
    /\ workers.pc[i] = "fetching"
    /\ workers' = [workers EXCEPT
                      !.pc[i] = "done",
                      !.sem = @ - 1,
                      !.results[resultSlot(i)] = [value |-> i, writes |-> @.writes + 1],
                      !.outOfOrder = @ \/ \E j \in 1..(i - 1) : workers.pc[j] # "done"]
    /\ UNCHANGED <<olderVars, warningVars, collectorVars, sessionVars, tuiVars>>

wgWait_first(pcs) == \E i \in DOMAIN pcs : pcs[i] = "done"

\* wg.Wait(): blocks until every goroutine has called wg.Done
wgWait(pcs) == \A i \in DOMAIN pcs : pcs[i] = "done"

\* wg.Wait() returns, and results is handed to the merge
WorkersReturn ==
    /\ ~workers.returned
    /\ wgWait(workers.pc)
    /\ workers' = [workers EXCEPT !.returned = TRUE]
    /\ UNCHANGED <<olderVars, warningVars, collectorVars, sessionVars, tuiVars>>

InitWorkers ==
    /\ FetcherIdle
    /\ AppServerIdle
    /\ EstimatorIdle
    /\ ReloadIdle
    /\ ScanIdle
    /\ WindowIdle
    /\ WarningsIdle
    /\ CollectorIdle
    /\ SessionIdle
    /\ TuiIdle
    /\ \E n \in 1..MaxWorkers : WorkersAt(n)

NextWorkers ==
    \/ \E i \in 1..MaxWorkers : WorkerAcquire(i)
    \/ \E i \in 1..MaxWorkers : WorkerFinish(i)
    \/ WorkersReturn

SpecWorkers == InitWorkers /\ [][NextWorkers]_vars

-----------------------------------------------------------------------------
(* AppServerSource under concurrent callers: Fetch, Close, the requests of a
   session and the readLoop of its child process *)

ReadMethods == {"account/rateLimits/read", "account/read"}

\* newAppServerSession; cmd is the number of the child in children, 0 for nil;
\* pending maps a request id to the caller that waits on its channel;
\* issued collects every id handed out, it is not a field of the code.
newAppServerSession ==
    [cmd |-> 0, initialized |-> FALSE, pending |-> <<>>, nextID |-> 0, issued |-> {}]

\* a child that was started: the process and the readLoop on its output, and
\* beside them how far the handshake on it has come and whether a request on
\* it was cancelled. A child is in children until its readLoop has ended.
newChild(sid) ==
    [state |-> "running", session |-> sid, handshake |-> "none", cancelled |-> FALSE]

\* the number a new object gets: the smallest one not in use
fresh(objects) ==
    CHOOSE n \in 1..(Cardinality(DOMAIN objects) + 1) :
        /\ n \notin DOMAIN objects
        /\ \A m \in 1..(n - 1) : m \in DOMAIN objects

with(objects, n, object) ==
    [i \in DOMAIN objects \cup {n} |-> IF i = n THEN object ELSE objects[i]]

\* the sessions something points to: the source, a Fetch or a Close under
\* way, a readLoop; the others are garbage and are dropped
referenced(src, cs, cl, kids) ==
    ({src.session} \cup {cs[c].session : c \in FetchCallers} \cup {cl.session}
        \cup {kids[p].session : p \in DOMAIN kids}) \ {0}

live(sessions_, src, cs, cl, kids) ==
    [sid \in DOMAIN sessions_ \cap referenced(src, cs, cl, kids) |-> sessions_[sid]]

withoutPending_kept(pending_, id) == pending_

\* delete(s.pending, id)
withoutPending(pending_, id) == [i \in DOMAIN pending_ \ {id} |-> pending_[i]]

nextRequestID_reused(session) == 1

\* reqID := s.nextID + 1
nextRequestID(session) == session.nextID + 1

reqMuFree_always(src) == TRUE

\* s.reqMu.Lock() succeeds
reqMuFree(src) == src.reqMu = 0

needsHandshake_never(session) == FALSE

\* ensureInitialized: if s.initialized { return nil }
needsHandshake(session) == ~session.initialized

\* close(done) has happened for the child
doneClosed(pid) == pid \notin DOMAIN children

\* appServerSession.close: nothing for a nil cmd, otherwise Kill; the wait
\* for done ends when the reader closes it or when the 2 s timer fires, so
\* the caller goes on in either case
sessionClose(kids, sid) ==
    IF sid = 0 THEN kids
    ELSE IF rpcSessions[sid].cmd \notin DOMAIN kids THEN kids
    ELSE [kids EXCEPT ![rpcSessions[sid].cmd].state = "exited"]

failureOf(method, kind, pid) == Some([method |-> method, kind |-> kind, pid |-> pid])

\* Fetch: reqMu.Lock, refreshAuthState (which resets the session when the
\* fingerprint changed)
SourceFetchBegin(c) ==
    /\ callers[c].pc = "idle"
    /\ reqMuFree(rpcSource)
    /\ rpcTrace.fetches < MaxSourceFetches
    /\ \E changed \in BOOLEAN :
          LET reset == changed /\ rpcSource.session # 0
          IN  /\ rpcSource' = [session |-> IF reset THEN 0 ELSE rpcSource.session,
                               reqMu |-> c]
              /\ children' = IF reset THEN sessionClose(children, rpcSource.session)
                             ELSE children
    /\ callers' = [callers EXCEPT ![c] = [idleCaller EXCEPT !.pc = "ensure"]]
    /\ rpcTrace' = [rpcTrace EXCEPT !.fetches = @ + 1,
                                    !.lateFetch = @ \/ closer.pc # "idle"]
    /\ rpcSessions' = live(rpcSessions, rpcSource', callers', closer, children')
    /\ UNCHANGED <<closer, notSessionVars>>

\* ensureSession, lines 121-126: under s.mu create the session if there is
\* none and take the pointer
EnsureSessionGet(c) ==
    /\ callers[c].pc = "ensure"
    /\ LET create == rpcSource.session = 0
           sid == IF create THEN fresh(rpcSessions) ELSE rpcSource.session
       IN  /\ rpcSessions' = IF create THEN with(rpcSessions, sid, newAppServerSession)
                             ELSE rpcSessions
           /\ rpcSource' = [rpcSource EXCEPT !.session = sid]
           /\ callers' = [callers EXCEPT ![c].session = sid, ![c].pc = "start"]
    /\ UNCHANGED <<children, closer, rpcTrace, notSessionVars>>

\* session.ensureStarted; on an error Fetch returns it
EnsureStarted(c) ==
    /\ callers[c].pc = "start"
    /\ LET sid == callers[c].session
           s == rpcSessions[sid]
           fails ==
               /\ callers' = [callers EXCEPT ![c] = idleCaller]
               /\ rpcSource' = [rpcSource EXCEPT !.reqMu = 0]
               /\ children' = children
               /\ rpcSessions' = live(rpcSessions, rpcSource', callers', closer, children)
       IN  IF s.cmd # 0
           THEN IF doneClosed(s.cmd)
                THEN fails
                ELSE /\ callers' = [callers EXCEPT ![c].pc = "init"]
                     /\ UNCHANGED <<rpcSource, rpcSessions, children>>
           ELSE \E started \in BOOLEAN :
                    IF started
                    THEN LET pid == fresh(children)
                         IN  /\ children' = with(children, pid, newChild(sid))
                             /\ rpcSessions' = [rpcSessions EXCEPT
                                                   ![sid].cmd = pid,
                                                   ![sid].initialized = FALSE]
                             /\ callers' = [callers EXCEPT ![c].pc = "init"]
                             /\ UNCHANGED rpcSource
                    ELSE fails
    /\ UNCHANGED <<closer, rpcTrace, notSessionVars>>

\* request, lines 329-352: under s.mu take the next id, register the channel
\* and encode; writing to a child that has exited may fail
SendRequest(c, method) ==
    LET sid == callers[c].session
        s == rpcSessions[sid]
        reqID == nextRequestID(s)
    IN  IF s.cmd = 0
        THEN /\ callers' = [callers EXCEPT
                               ![c].pc = "failed", ![c].method = method, ![c].pid = 0,
                               ![c].failure = failureOf(method, "not started", 0)]
             /\ UNCHANGED rpcSessions
        ELSE \E encoded \in (IF children[s.cmd].state = "running" THEN {TRUE} ELSE BOOLEAN) :
                 IF encoded
                 THEN /\ rpcSessions' = [rpcSessions EXCEPT
                                            ![sid].nextID = reqID,
                                            ![sid].issued = @ \cup {reqID},
                                            ![sid].pending = with(@, reqID, c)]
                      /\ callers' = [callers EXCEPT
                                        ![c].pc = "wait", ![c].method = method,
                                        ![c].reqID = reqID, ![c].pid = s.cmd,
                                        ![c].respCh = emptyChan,
                                        ![c].staleDropped = FALSE]
                 ELSE /\ rpcSessions' = [rpcSessions EXCEPT
                                            ![sid].nextID = reqID,
                                            ![sid].issued = @ \cup {reqID}]
                      /\ callers' = [callers EXCEPT
                                        ![c].pc = "failed", ![c].method = method,
                                        ![c].reqID = reqID, ![c].pid = s.cmd,
                                        ![c].failure = failureOf(method, "send", s.cmd)]

\* ensureInitialized, lines 276-291
EnsureInitialized(c) ==
    /\ callers[c].pc = "init"
    /\ IF needsHandshake(rpcSessions[callers[c].session])
       THEN SendRequest(c, "initialize")
       ELSE /\ callers' = [callers EXCEPT ![c].pc = "limits"]
            /\ UNCHANGED rpcSessions
    /\ UNCHANGED <<rpcSource, children, closer, rpcTrace, notSessionVars>>

\* session.fetchRateLimits
FetchRateLimits(c) ==
    /\ callers[c].pc = "limits"
    /\ SendRequest(c, "account/rateLimits/read")
    /\ UNCHANGED <<rpcSource, children, closer, rpcTrace, notSessionVars>>

\* session.fetchAccount
FetchAccount(c) ==
    /\ callers[c].pc = "account"
    /\ SendRequest(c, "account/read")
    /\ UNCHANGED <<rpcSource, children, closer, rpcTrace, notSessionVars>>

\* request, lines 354-378: the select on respCh, ctx.Done() and done. After
\* the answer to account/read Fetch returns its summary.
AwaitResponse(c) ==
    /\ callers[c].pc = "wait"
    /\ LET me == callers[c]
           sid == me.session
           fails(kind) ==
               callers' = [callers EXCEPT ![c].pc = "failed",
                                          ![c].failure = failureOf(me.method, kind, me.pid)]
       IN  \/ /\ me.respCh.state = "full"
              /\ ~me.respCh.error
              /\ callers' = [callers EXCEPT
                                ![c] = CASE me.method = "initialize" -> [me EXCEPT !.pc = "notify"]
                                         [] me.method = "account/rateLimits/read" ->
                                                [me EXCEPT !.pc = "account"]
                                         [] OTHER -> idleCaller]
              /\ rpcSource' = IF me.method = "account/read"
                              THEN [rpcSource EXCEPT !.reqMu = 0] ELSE rpcSource
              /\ children' = IF me.method = "initialize" /\ me.pid \in DOMAIN children
                             THEN [children EXCEPT ![me.pid].handshake = "answered"]
                             ELSE children
              /\ rpcSessions' = live(rpcSessions, rpcSource', callers', closer, children')
           \/ /\ me.respCh.state = "full"
              /\ me.respCh.error
              /\ fails("protocol")
              /\ UNCHANGED <<rpcSource, rpcSessions, children>>
           \/ /\ me.respCh.state = "closed"
              /\ fails("aborted")
              /\ UNCHANGED <<rpcSource, rpcSessions, children>>
           \/ /\ rpcSessions' = [rpcSessions EXCEPT
                                    ![sid].pending = withoutPending(@, me.reqID)]
              /\ fails("timeout")
              /\ children' = IF me.pid \in DOMAIN children
                             THEN [children EXCEPT ![me.pid].cancelled = TRUE]
                             ELSE children
              /\ UNCHANGED rpcSource
           \/ /\ doneClosed(me.pid)
              /\ rpcSessions' = [rpcSessions EXCEPT
                                    ![sid].pending = withoutPending(@, me.reqID)]
              /\ fails("closed")
              /\ UNCHANGED <<rpcSource, children>>
    /\ UNCHANGED <<closer, rpcTrace, notSessionVars>>

\* s.notify("initialized", ...)
Notify(c) ==
    /\ callers[c].pc = "notify"
    /\ LET s == rpcSessions[callers[c].session]
       IN  IF s.cmd = 0
           THEN /\ callers' = [callers EXCEPT
                                  ![c].pc = "failed", ![c].method = "initialized",
                                  ![c].failure = failureOf("initialized", "not started", 0)]
                /\ UNCHANGED children
           ELSE \E encoded \in (IF children[s.cmd].state = "running" THEN {TRUE} ELSE BOOLEAN) :
                    IF encoded
                    THEN /\ callers' = [callers EXCEPT ![c].pc = "setinit"]
                         /\ children' = [children EXCEPT
                                            ![s.cmd].handshake =
                                                IF @ = "answered" THEN "notified" ELSE @]
                    ELSE /\ callers' = [callers EXCEPT
                                           ![c].pc = "failed", ![c].method = "initialized",
                                           ![c].failure = failureOf("initialized", "send", s.cmd)]
                         /\ UNCHANGED children
    /\ UNCHANGED <<rpcSource, rpcSessions, closer, rpcTrace, notSessionVars>>

\* ensureInitialized, lines 298-300: s.initialized = true
SetInitialized(c) ==
    /\ callers[c].pc = "setinit"
    /\ rpcSessions' = [rpcSessions EXCEPT ![callers[c].session].initialized = TRUE]
    /\ callers' = [callers EXCEPT ![c].pc = "limits"]
    /\ UNCHANGED <<rpcSource, children, closer, rpcTrace, notSessionVars>>

\* what Fetch does with the error of a request: the handshake closes the
\* session it used (lines 131-134), the rate limits reset the source's
\* session (90-93), the account read adds a warning (100-103)
FetchFailed(c) ==
    /\ callers[c].pc = "failed"
    /\ LET me == callers[c]
       IN  CASE me.method \in {"initialize", "initialized"} ->
                  /\ children' = sessionClose(children, me.session)
                  /\ rpcSource' = [rpcSource EXCEPT !.reqMu = 0]
             [] me.method = "account/rateLimits/read" ->
                  /\ children' = sessionClose(children, rpcSource.session)
                  /\ rpcSource' = [session |-> 0, reqMu |-> 0]
             [] OTHER ->
                  /\ children' = children
                  /\ rpcSource' = [rpcSource EXCEPT !.reqMu = 0]
    /\ callers' = [callers EXCEPT ![c] = idleCaller]
    /\ rpcSessions' = live(rpcSessions, rpcSource', callers', closer, children')
    /\ UNCHANGED <<closer, rpcTrace, notSessionVars>>

\* Close, lines 109-112: under s.mu take the session and clear the field.
\* The owner of a source closes it once.
CloseTake ==
    /\ closer.pc = "idle"
    /\ closer' = [pc |-> "close", session |-> rpcSource.session]
    /\ rpcSource' = [rpcSource EXCEPT !.session = 0]
    /\ UNCHANGED <<rpcSessions, children, callers, rpcTrace, notSessionVars>>

\* Close, lines 114-117: session.close() and return
CloseReturn ==
    /\ closer.pc = "close"
    /\ children' = sessionClose(children, closer.session)
    /\ closer' = [pc |-> "closed", session |-> 0]
    /\ rpcSessions' = live(rpcSessions, rpcSource, callers, closer', children')
    /\ UNCHANGED <<rpcSource, callers, rpcTrace, notSessionVars>>

\* the child exits by itself
ChildExit(p) ==
    /\ p \in DOMAIN children
    /\ children[p].state = "running"
    /\ children' = [children EXCEPT ![p].state = "exited"]
    /\ UNCHANGED <<rpcSource, rpcSessions, callers, closer, rpcTrace, notSessionVars>>

\* what the child may write on one line: no id (0), an id in use, an id used
\* before (the latest two stand for all of them), the id not yet issued. A
\* line read while no request is pending is dropped and changes nothing, so
\* it is left out.
LineIds(s) ==
    IF DOMAIN s.pending = {} THEN {}
    ELSE {0, s.nextID + 1} \cup DOMAIN s.pending \cup ({s.nextID - 1, s.nextID} \cap s.issued)

\* readLoop, lines 402-423: one line of the child's output. A channel whose
\* request has returned is no longer read. A waiting caller records that a
\* line with an id used before was dropped.
ReaderRead(p) ==
    /\ p \in DOMAIN children
    /\ LET sid == children[p].session
           s == rpcSessions[sid]
       IN  \E id \in LineIds(s) :
               IF id \in DOMAIN s.pending
               THEN LET c == s.pending[id]
                        waits == /\ callers[c].pc = "wait"
                                 /\ callers[c].session = sid
                                 /\ callers[c].reqID = id
                                 /\ callers[c].respCh.state = "empty"
                    IN  /\ rpcSessions' = [rpcSessions EXCEPT
                                              ![sid].pending = withoutPending(@, id)]
                        /\ \E error \in BOOLEAN :
                              callers' = IF waits
                                         THEN [callers EXCEPT
                                                 ![c].respCh = [state |-> "full", id |-> id,
                                                                error |-> error]]
                                         ELSE callers
               ELSE /\ callers' = [c \in FetchCallers |->
                                       IF /\ id \in s.issued
                                          /\ callers[c].pc = "wait"
                                          /\ callers[c].session = sid
                                          /\ callers[c].respCh.state = "empty"
                                       THEN [callers[c] EXCEPT !.staleDropped = TRUE]
                                       ELSE callers[c]]
                    /\ UNCHANGED rpcSessions
    /\ UNCHANGED <<rpcSource, children, closer, rpcTrace, notSessionVars>>

closeChannels_none(pending_) == callers

\* for id, ch := range s.pending { ...; close(ch) }
closeChannels(pending_) ==
    [c \in FetchCallers |->
        IF /\ callers[c].pc = "wait"
           /\ callers[c].reqID \in DOMAIN pending_
           /\ pending_[callers[c].reqID] = c
           /\ callers[c].respCh.state = "empty"
        THEN [callers[c] EXCEPT !.respCh.state = "closed"]
        ELSE callers[c]]

\* readLoop, lines 426-450: the stream has ended; under s.mu every pending
\* channel is closed and the session forgets the process, then cmd.Wait()
\* returns for the exited child and done is closed
ReaderCleanup(p) ==
    /\ p \in DOMAIN children
    /\ children[p].state = "exited"
    /\ LET sid == children[p].session
       IN  /\ callers' = closeChannels(rpcSessions[sid].pending)
           /\ children' = [q \in DOMAIN children \ {p} |-> children[q]]
           /\ rpcSessions' = live([rpcSessions EXCEPT
                                      ![sid].pending = <<>>,
                                      ![sid].cmd = 0,
                                      ![sid].initialized = FALSE],
                                  rpcSource, callers', closer, children')
    /\ UNCHANGED <<rpcSource, closer, rpcTrace, notSessionVars>>

InitSession ==
    /\ FetcherIdle
    /\ AppServerIdle
    /\ EstimatorIdle
    /\ ReloadIdle
    /\ ScanIdle
    /\ WindowIdle
    /\ LaterIdle

NextSession ==
    \/ \E c \in FetchCallers : SourceFetchBegin(c)
    \/ \E c \in FetchCallers : EnsureSessionGet(c)
    \/ \E c \in FetchCallers : EnsureStarted(c)
    \/ \E c \in FetchCallers : EnsureInitialized(c)
    \/ \E c \in FetchCallers : Notify(c)
    \/ \E c \in FetchCallers : SetInitialized(c)
    \/ \E c \in FetchCallers : FetchRateLimits(c)
    \/ \E c \in FetchCallers : FetchAccount(c)
    \/ \E c \in FetchCallers : AwaitResponse(c)
    \/ \E c \in FetchCallers : FetchFailed(c)
    \/ CloseTake
    \/ CloseReturn
    \/ \E p \in 1..MaxSourceFetches : ChildExit(p)
    \/ \E p \in 1..MaxSourceFetches : ReaderRead(p)
    \/ \E p \in 1..MaxSourceFetches : ReaderCleanup(p)

SpecSession == InitSession /\ [][NextSession]_vars

-----------------------------------------------------------------------------
(* The live UI: the polling loop of tui.Model *)

IntervalOptions == {0, 1}

\* what the FetchFunc may return: a summary, an error, both, or neither
FetchResults ==
    { [summary |-> Some([ZeroSummary EXCEPT !.Source = AppServerName]), err |-> None,
       duration |-> 0],
      [summary |-> Some([ZeroSummary EXCEPT !.Source = OAuthName]), err |-> None,
       duration |-> 1],
      [summary |-> None, err |-> Some(<<"boom">>), duration |-> 1],
      [summary |-> Some([ZeroSummary EXCEPT !.Source = OAuthName]), err |-> Some(<<"boom">>),
       duration |-> 0],
      [summary |-> None, err |-> None, duration |-> 0] }

KeyNames == {"ctrl+c", "q"}
WindowSizes == { [Width |-> 0, Height |-> 0], [Width |-> 80, Height |-> 24] }

\* what Update returns: the model and the commands of the batch
updated(mdl, cmds, quit) == [model |-> mdl, cmds |-> cmds, quit |-> quit]

\* variant: every poll tick starts a fetch
pollTick_alwaysFetches(mdl, at) ==
    updated([mdl EXCEPT !.nextFetchAt = Some(at + mdl.interval), !.fetching = TRUE],
            [NoCmds EXCEPT !.poll = 1, !.fetch = 1], FALSE)

\* Update, case pollTickMsg
pollTick(mdl, at) ==
    LET next == [mdl EXCEPT !.nextFetchAt = Some(at + mdl.interval)]
    IN  IF ~mdl.fetching
        THEN updated([next EXCEPT !.fetching = TRUE], [NoCmds EXCEPT !.poll = 1, !.fetch = 1],
                     FALSE)
        ELSE updated(next, [NoCmds EXCEPT !.poll = 1], FALSE)

\* Update, case fetchResultMsg
fetchResult(mdl, v) ==
    LET attempted == [mdl EXCEPT !.fetching = FALSE,
                                 !.lastAttemptAt = Some(v.at),
                                 !.lastFetchDuration = v.duration]
    IN  IF v.err # None
        THEN updated([attempted EXCEPT !.lastError = v.err[1]], NoCmds, FALSE)
        ELSE updated([attempted EXCEPT !.lastError = <<>>,
                                       !.lastSuccessAt = Some(v.at),
                                       !.summary = v.summary],
                     NoCmds, FALSE)

\* Model.Update
Update(mdl, v) ==
    CASE v.type = "key" -> updated(mdl, NoCmds, v.key = "ctrl+c")
      [] v.type = "windowSize" ->
            updated([mdl EXCEPT !.width = v.Width, !.height = v.Height], NoCmds, FALSE)
      [] v.type = "pollTick" -> pollTick(mdl, v.at)
      [] v.type = "clockTick" ->
            updated([mdl EXCEPT !.now = v.at], [NoCmds EXCEPT !.clock = 1], FALSE)
      [] v.type = "fetchResult" -> fetchResult(mdl, v)
      [] OTHER -> updated(mdl, NoCmds, FALSE)

\* the program is running and may deliver one more message
Running == program.started /\ ~program.quit /\ program.delivered < MaxMessages
Instants == program.wall..MaxUiClock

\* the program delivers v, which ended the commands done, to Update and runs
\* the commands of the batch it returns
Deliver(v, done) ==
    LET r == Update(uiModel, v)
    IN  /\ uiModel' = r.model
        /\ program' = [program EXCEPT
              !.quit = r.quit,
              !.cmds = [c \in DOMAIN @ |-> @[c] - done[c] + r.cmds[c]],
              !.wall = IF "at" \in DOMAIN v THEN v.at ELSE @,
              !.delivered = @ + 1,
              !.msg = Some(v),
              !.fetchesStarted = @ + r.cmds.fetch,
              !.lastGood = IF v.type = "fetchResult" /\ v.err = None THEN v.summary ELSE @]
        /\ UNCHANGED <<olderVars, warningVars, collectorVars, workerVars, sessionVars>>

\* tea.NewProgram(model).Run with the options of the command line: Model.Init
\* starts the first fetch, the poll timer and the clock timer
ProgramRun ==
    /\ ~program.started
    /\ \E i \in IntervalOptions :
          uiModel' = NewModel([Interval |-> i], 0)
    /\ program' = [program EXCEPT !.started = TRUE,
                                   !.cmds = [fetch |-> 1, poll |-> 1, clock |-> 1],
                                   !.fetchesStarted = 1]
    /\ UNCHANGED <<olderVars, warningVars, collectorVars, workerVars, sessionVars>>

\* the timer of pollCmd fires
PollTick ==
    /\ Running
    /\ program.cmds.poll > 0
    /\ \E at \in Instants :
          Deliver([type |-> "pollTick", at |-> at], [NoCmds EXCEPT !.poll = 1])

\* the timer of clockCmd fires
ClockTick ==
    /\ Running
    /\ program.cmds.clock > 0
    /\ \E at \in Instants :
          Deliver([type |-> "clockTick", at |-> at], [NoCmds EXCEPT !.clock = 1])

\* a fetchCmd returns its message
FetchResult ==
    /\ Running
    /\ program.cmds.fetch > 0
    /\ \E at \in Instants, result \in FetchResults :
          Deliver([type |-> "fetchResult", at |-> at, duration |-> result.duration,
                   summary |-> result.summary, err |-> result.err],
                  [NoCmds EXCEPT !.fetch = 1])

\* a key is pressed
KeyMsg ==
    /\ Running
    /\ \E key \in KeyNames : Deliver([type |-> "key", key |-> key], NoCmds)

\* the terminal is resized
WindowSizeMsg ==
    /\ Running
    /\ \E size \in WindowSizes :
          Deliver([type |-> "windowSize", Width |-> size.Width, Height |-> size.Height],
                  NoCmds)

InitTui ==
    /\ FetcherIdle
    /\ AppServerIdle
    /\ EstimatorIdle
    /\ ReloadIdle
    /\ ScanIdle
    /\ WindowIdle
    /\ LaterIdle

NextTui ==
    \/ ProgramRun
    \/ PollTick
    \/ ClockTick
    \/ FetchResult
    \/ KeyMsg
    \/ WindowSizeMsg

SpecTui == InitTui /\ [][NextTui]_vars

-----------------------------------------------------------------------------
(* Properties *)

Returned == phase = "returned"
Res(i) == results[i][1]
LabelOfAccount(i) == accounts[i].account.Label
Failed(i) == Res(i).fetchErr # None
Succeeded(i) == Res(i).fetchErr = None /\ Res(i).snapshot # None
EstimateAvailable(i) ==
    /\ Res(i).account.ObservedWindow5h # None
    /\ Res(i).account.ObservedTokensStatus # observedTokensStatusUnavailable
EstimatorFailed(i) == Res(i).warnings # <<>>

\* the identity key as the documentation defines it: the first of e-mail,
\* account id and user id that is not blank, trimmed, lower-cased and tagged
ExpectedKey(a) ==
    LET fields == << <<"email:", a.AccountEmail>>, <<"account_id:", a.AccountID>>,
                     <<"user_id:", a.UserID>> >>
        present == {k \in 1..3 : TrimSpace(fields[k][2]) # <<>>}
    IN  IF present = {} THEN <<"unverified">>
        ELSE LET k == CHOOSE x \in present : \A y \in present : x <= y
             IN  <<fields[k][1]>> \o ToLower(TrimSpace(fields[k][2]))

KeyOfResult(i) == ExpectedKey(Res(i).account)

\* the active home: CODEX_HOME, else <HOME>/.codex, with symbolic links resolved
ExpectedActiveHome ==
    IF TrimSpace(env.CODEX_HOME) # <<>> THEN EvalSymlinks(TrimSpace(env.CODEX_HOME))
    ELSE IF env.HOME = <<>> THEN <<>>
    ELSE EvalSymlinks(env.HOME \o <<"/.codex">>)

ActiveAccounts == {i \in Workers : ExpectedActiveHome # <<>> /\ HomeOf(i) = ExpectedActiveHome}

Mentions(warnings, parts) ==
    \E k \in DOMAIN warnings : \A part \in parts : Contains(warnings[k], part)

\* C1: within one account fetch the fallback's Fetch is invoked only after
\* the primary's Fetch has returned an error; when the primary succeeds the
\* fallback is never invoked and the primary's summary is the one returned.
C1_FallbackOnlyAfterPrimaryError ==
    \A i \in Workers :
        LET c == calls[i]
            primaryOK == \E k \in DOMAIN c : c[k].src = "primary" /\ c[k].err = None
        IN  /\ \A k \in DOMAIN c :
                  c[k].src = "fallback" =>
                      \E j \in 1..(k - 1) : c[j].src = "primary" /\ c[j].err # None
            /\ pc[i] = "fallback" =>
                  c # <<>> /\ c[Len(c)].src = "primary" /\ c[Len(c)].err # None
            /\ primaryOK =>
                  /\ \A k \in DOMAIN c : c[k].src # "fallback"
                  /\ pc[i] = "done"
                  /\ Res(i).fetchErr = None
                  /\ Res(i).snapshot =
                        Some(SourceFetch(accounts[i].primary[1],
                                         Remote(HomeOf(i), server[HomeOf(i)]),
                                         FetchTime(accounts[i].primary[1])))

C1_Witness ==
    \E i, j \in Workers :
        /\ pc[i] = "done" /\ pc[j] = "done"
        /\ Len(calls[i]) = 2 /\ calls[i][1].err # None /\ calls[i][2].src = "fallback"
        /\ Len(calls[j]) = 1 /\ calls[j][1].src = "primary" /\ calls[j][1].err = None

UsedFallback(i) ==
    /\ pc[i] = "done"
    /\ Len(calls[i]) = 2
    /\ calls[i][1].src = "primary" /\ calls[i][1].err # None
    /\ calls[i][2].src = "fallback" /\ calls[i][2].err = None

\* C2: whenever the fallback was used for an account (primary failed,
\* fallback succeeded) the returned summary carries the fallback's source
\* name and a warning that mentions the primary's name and the primary's error.
C2_FallbackSummaryNamesPrimaryFailure ==
    \A i \in Workers :
        UsedFallback(i) =>
            LET parts == {accounts[i].primary[1].name, calls[i][1].err[1]}
            IN  /\ Res(i).fetchErr = None
                /\ Res(i).snapshot # None
                /\ Res(i).snapshot[1].Source = accounts[i].fallback[1].name
                /\ Mentions(Res(i).snapshot[1].Warnings, parts)
                /\ Res(i).account.Source = accounts[i].fallback[1].name
                /\ Mentions(Res(i).account.Warnings, parts)

C2_Witness == \E i \in Workers : UsedFallback(i)

ErrorIffNothingUsable ==
    /\ (outErr # None) <=> ((\A i \in Workers : ~Succeeded(i))
                            /\ (\A i \in Workers : ~EstimateAvailable(i)))
    /\ (out = None) <=> (outErr # None)

FailureWarned(i) ==
    Mentions(out[1].Warnings, {LabelOfAccount(i), Res(i).fetchErr[1]})

\* C3 as stated: Fetch fails iff no fetch succeeded and no estimate is
\* available; otherwise every failed account appears as a warning and as an
\* account row carrying its error, and is not counted in successful_accounts.
C3_EveryFailedAccountHasItsRow ==
    Returned =>
        /\ ErrorIffNothingUsable
        /\ out # None =>
              /\ \A i \in Workers :
                    Failed(i) =>
                        /\ FailureWarned(i)
                        /\ \E r \in DOMAIN out[1].Accounts :
                              /\ out[1].Accounts[r].Label = LabelOfAccount(i)
                              /\ out[1].Accounts[r].Error = Res(i).fetchErr[1]
              /\ out[1].SuccessfulAccounts <= Cardinality({i \in Workers : Succeeded(i)})

\* C3 (amended): Fetch fails iff no fetch succeeded and no estimate is
\* available; otherwise every failed account appears as a warning, all failed
\* accounts fall under the one key "unverified", the single row of that key
\* carries the error of one of them unless a successful account without
\* identifiers holds it, and successful_accounts counts only keys of
\* successful fetches.
C3_FailedAccountsShareUnverifiedRow ==
    Returned =>
        /\ ErrorIffNothingUsable
        /\ out # None =>
              /\ \A i \in Workers :
                    Failed(i) => FailureWarned(i) /\ KeyOfResult(i) = <<"unverified">>
              /\ (\E i \in Workers : Failed(i)) =>
                    \E r \in DOMAIN out[1].Accounts :
                        LET row == out[1].Accounts[r]
                        IN  /\ ExpectedKey(row) = <<"unverified">>
                            /\ \A q \in DOMAIN out[1].Accounts :
                                  ExpectedKey(out[1].Accounts[q]) = <<"unverified">> => q = r
                            /\ IF \E j \in Workers :
                                     Succeeded(j) /\ KeyOfResult(j) = <<"unverified">>
                               THEN row.Error = <<>>
                               ELSE \E j \in Workers :
                                       /\ Failed(j)
                                       /\ row.Label = LabelOfAccount(j)
                                       /\ row.Error = Res(j).fetchErr[1]
              /\ out[1].SuccessfulAccounts =
                    Cardinality({KeyOfResult(j) : j \in {i \in Workers : Succeeded(i)}})

C3_Witness ==
    /\ Returned
    /\ out # None
    /\ \E i, j \in Workers : i # j /\ Failed(i) /\ Failed(j)

NoActiveSuccess ==
    \/ ExpectedActiveHome = <<>>
    \/ ActiveAccounts = {}
    \/ \E i \in ActiveAccounts : Failed(i)

Estimated == {i \in Workers : EstimateAvailable(i)}
KeysWithEstimate == {KeyOfResult(i) : i \in Estimated}

MaxOf(S) == CHOOSE m \in S : \A x \in S : x <= m

RECURSIVE SumOver(_, _)
SumOver(f, S) ==
    IF S = {} THEN 0
    ELSE LET k == CHOOSE x \in S : TRUE
         IN  f[k] + SumOver(f, S \ {k})

\* the sum, over the identity keys, of the largest total reported under each key
SumOfPerKeyMax(total(_)) ==
    SumOver([k \in KeysWithEstimate |->
                MaxOf({total(i) : i \in {j \in Estimated : KeyOfResult(j) = k}})],
            KeysWithEstimate)

Total5h(i) == Res(i).account.ObservedWindow5h[1].Total
TotalWeekly(i) == Res(i).account.ObservedWindowWeekly[1].Total

\* C6: the aggregate observed five-hour and weekly totals equal the sum, over
\* the distinct identity keys of the accounts with an available estimate, of
\* the largest total reported under each key.
C6_ObservedTotalsSumPerKeyMax ==
    (Returned /\ out # None /\ Estimated # {}) =>
        /\ out[1].ObservedTokens5h = Some(SumOfPerKeyMax(Total5h))
        /\ out[1].ObservedTokensWeekly = Some(SumOfPerKeyMax(TotalWeekly))
        /\ out[1].ObservedWindow5h # None
        /\ out[1].ObservedWindow5h[1].Total = SumOfPerKeyMax(Total5h)
        /\ out[1].ObservedWindowWeekly # None
        /\ out[1].ObservedWindowWeekly[1].Total = SumOfPerKeyMax(TotalWeekly)

C6_Witness ==
    /\ Returned
    /\ out # None
    /\ \E i, j \in Estimated :
          /\ i # j
          /\ KeyOfResult(i) = KeyOfResult(j)
          /\ Total5h(i) < Total5h(j)
          /\ TotalWeekly(i) > TotalWeekly(j)

\* C7: total_accounts is the number of distinct identity keys over all
\* results, successful_accounts the number of distinct keys with at least one
\* successful fetch, the accounts list has total_accounts rows, and
\* successful_accounts never exceeds total_accounts.
C7_AccountCountsAreDistinctKeys ==
    (Returned /\ out # None) =>
        /\ out[1].TotalAccounts = Cardinality({KeyOfResult(i) : i \in Workers})
        /\ out[1].SuccessfulAccounts =
              Cardinality({KeyOfResult(i) : i \in {j \in Workers : Succeeded(j)}})
        /\ Len(out[1].Accounts) = out[1].TotalAccounts
        /\ out[1].SuccessfulAccounts <= out[1].TotalAccounts

C7_Witness ==
    /\ Returned
    /\ out # None
    /\ NumAccounts = 2
    /\ out[1].TotalAccounts = 2
    /\ out[1].SuccessfulAccounts = 1

LastKey(i) == keyHistory[i][Len(keyHistory[i])].key

\* C9: the identity key is the first non-empty of e-mail, account id and
\* user id, trimmed, lower-cased and tagged, or "unverified" when all are
\* empty; two results are merged into one account row exactly when their
\* keys are equal.
C9_KeyPrecedenceAndMerge ==
    Returned =>
        /\ \A i \in Workers : LastKey(i) = KeyOfResult(i)
        /\ out # None =>
              /\ \A i \in Workers :
                    Cardinality({r \in DOMAIN out[1].Accounts :
                                    ExpectedKey(out[1].Accounts[r]) = KeyOfResult(i)}) = 1
              /\ \A r, q \in DOMAIN out[1].Accounts :
                    ExpectedKey(out[1].Accounts[r]) = ExpectedKey(out[1].Accounts[q]) => r = q
              /\ \A r \in DOMAIN out[1].Accounts :
                    \E i \in Workers : out[1].Accounts[r] = Res(i).account

C9_Witness ==
    /\ Returned
    /\ out # None
    /\ \E i, j \in Workers :
          /\ i # j
          /\ Succeeded(i) /\ Succeeded(j)
          /\ Res(i).account.AccountEmail # Res(j).account.AccountEmail
          /\ Res(i).account.AccountID # <<>>
          /\ LastKey(i) = LastKey(j)
          /\ Len(out[1].Accounts) = 1

ExpectedStatus ==
    IF Estimated = {} THEN observedTokensStatusUnavailable
    ELSE IF Estimated = Workers THEN observedTokensStatusEstimated
    ELSE observedTokensStatusPartial

\* C10: the aggregate observed status is "estimated" iff at least one account
\* has an available estimate and none is unavailable, "partial" iff at least
\* one is available and at least one unavailable, "unavailable" iff none is
\* available; an estimator failure counts as unavailable and never aborts
\* the fetch.
C10_ObservedStatus ==
    Returned =>
        /\ out # None => out[1].ObservedTokensStatus = ExpectedStatus
        /\ \A i \in Workers :
              EstimatorFailed(i) =>
                  /\ ~EstimateAvailable(i)
                  /\ Res(i).account.ObservedTokensStatus = observedTokensStatusUnavailable
                  /\ (\E j \in Workers : Succeeded(j) \/ EstimateAvailable(j)) => out # None

C10_Witness ==
    /\ Returned
    /\ out # None
    /\ out[1].ObservedTokensStatus = observedTokensStatusPartial
    /\ \E i \in Workers : EstimatorFailed(i)

-----------------------------------------------------------------------------
(* Properties of the app-server source *)

PrevObserved == authTrace.prevObserved[1]
ObservedAuthDiffers ==
    /\ authTrace.prevObserved # None
    /\ authTrace.observed # PrevObserved
RequestSentOn(pid) == \E k \in 1..Len(authTrace.requests) : authTrace.requests[k] = pid
LeftSessionClosed ==
    /\ procs[authTrace.leftPid] = "exited"
    /\ ~RequestSentOn(authTrace.leftPid)

\* C11 as stated: whenever the auth state observed by a Fetch differs from the
\* one observed by the previous Fetch, the session the previous Fetch left is
\* closed before any request of the current Fetch is sent
C11_SessionClosedOnAnyAuthChange ==
    (ObservedAuthDiffers /\ authTrace.leftPid # 0 /\ authTrace.requests # <<>>)
        => LeftSessionClosed

\* C11 amended: when the previous Fetch read a fingerprint and the current
\* Fetch reads another one or cannot read it, the session the previous Fetch
\* left is closed before any request of the current Fetch is sent, and no
\* request goes to it
C11_SessionClosedWhenStoredFingerprintChanges ==
    (ObservedAuthDiffers /\ PrevObserved # "" /\ authTrace.leftPid # 0)
        => LeftSessionClosed

C11_Witness ==
    /\ ObservedAuthDiffers
    /\ PrevObserved # ""
    /\ authTrace.leftPid # 0
    /\ LeftSessionClosed
    /\ PidOf(appServer.session) # 0
    /\ RequestSentOn(PidOf(appServer.session))

LastRefresh == authTrace.refresh[1]
AuthStateChanged ==
    /\ LastRefresh.storedBefore # ""
    /\ LastRefresh.reading # LastRefresh.storedBefore
RefreshRuns == authTrace'.fetches = authTrace.fetches + 1
StoredFingerprintChanges ==
    /\ appServer.authFingerprint # ""
    /\ authFile # appServer.authFingerprint

\* C12: refreshAuthState warns and closes the session exactly when a
\* fingerprint was stored and the reading is an error or a different
\* fingerprint; it then stores the reading (nothing after an error); in every
\* other case the session is left alone and a first reading is stored silently
C12_RefreshAuthStateTransitions ==
    [][RefreshRuns =>
        /\ (authTrace'.refresh[1].warning = authChangedWarning) <=> StoredFingerprintChanges
        /\ (authTrace'.refresh[1].warning = "") <=> ~StoredFingerprintChanges
        /\ appServer'.authFingerprint = authFile
        /\ StoredFingerprintChanges =>
              /\ appServer'.session = None
              /\ procs' = KillProcess(procs, PidOf(appServer.session))
        /\ ~StoredFingerprintChanges =>
              /\ appServer'.session = appServer.session
              /\ procs' = procs]_vars

RefreshJustRan == authTrace.refresh # None /\ srcPc = "ensure" /\ authTrace.requests = <<>>

C12_Witness ==
    /\ RefreshJustRan
    /\ AuthStateChanged
    /\ LastRefresh.reading = ""
    /\ PidOf(LastRefresh.sessionBefore) # 0
    /\ procs[PidOf(LastRefresh.sessionBefore)] = "exited"

-----------------------------------------------------------------------------
(* Properties of the observed-token estimator *)

EstimateReturns == estimateTrace' # None /\ estimateTrace' # estimateTrace
ColdAsyncCall(t, e) ==
    /\ e.async
    /\ StatOf(TrimSpace(t.codexHome)) = "dir"
    /\ ~t.hadCache

-----------------------------------------------------------------------------
(* Properties of the reload and of Close *)

RunningBefore == reloadTrace.before
LoadedList == reloadTrace.list
JustReloaded == reloadTrace.reloads > 0 /\ ~reloadTrace.closed
IsRunning(home, primary, fallback) ==
    \E j \in DOMAIN accountFetchers :
        /\ accountFetchers[j].account.CodexHome = home
        /\ accountFetchers[j].primary = primary
        /\ accountFetchers[j].fallback = fallback
        /\ \E k \in DOMAIN LoadedList :
              /\ normalizeHome(LoadedList[k].CodexHome) = home
              /\ LoadedList[k].Label = accountFetchers[j].account.Label
ReloadKeepsAndCloses ==
    /\ \A i \in DOMAIN RunningBefore :
          LET old == RunningBefore[i]
              home == normalizeHome(old.account.CodexHome)
          IN  IF home \in ListHomes(LoadedList)
              THEN /\ IsRunning(home, old.primary, old.fallback)
                   /\ sources[old.primary] = reloadTrace.sourcesBefore[old.primary]
                   /\ sources[old.fallback] = reloadTrace.sourcesBefore[old.fallback]
              ELSE /\ sources[old.primary] = "closed"
                   /\ sources[old.fallback] = "closed"
    /\ \A home \in ListHomes(LoadedList) \ HomesOf(RunningBefore) :
          \E j \in DOMAIN accountFetchers :
              /\ accountFetchers[j].account.CodexHome = home
              /\ accountFetchers[j].primary > Len(reloadTrace.sourcesBefore)
              /\ accountFetchers[j].fallback > Len(reloadTrace.sourcesBefore)
              /\ sources[accountFetchers[j].primary] = "open"
              /\ sources[accountFetchers[j].fallback] = "open"

\* C14: after a reload, the sources of every running home that is in the new
\* list are kept (only the label changes) and stay as they were, both sources of
\* every running home absent from the list are closed, and every home that is
\* only in the list has newly created sources
C14_ReloadKeepsAndCloses == JustReloaded => ReloadKeepsAndCloses

OneFetcherPerHome(running) ==
    \A i, j \in DOMAIN running :
        normalizeHome(running[i].account.CodexHome) = normalizeHome(running[j].account.CodexHome)
            => i = j

\* the reload rule holds whenever no two running fetchers share a home
ReloadKeepsAndClosesFromDistinctHomes ==
    (JustReloaded /\ OneFetcherPerHome(RunningBefore)) => ReloadKeepsAndCloses

ReloadFromDistinctHomesWitness ==
    /\ JustReloaded
    /\ OneFetcherPerHome(RunningBefore)
    /\ \E i \in DOMAIN RunningBefore : sources[RunningBefore[i].primary] = "closed"
    /\ ListHomes(LoadedList) \ HomesOf(RunningBefore) # {}

\* C15: once the fetcher is closed, after any reloads, no source that was
\* ever created is still open
C15_NoSourceLeftOpen ==
    reloadTrace.closed => \A id \in DOMAIN sources : sources[id] = "closed"

-----------------------------------------------------------------------------
(* Properties of the journal scan *)

LineRead == scanTrace'.n = scanTrace.n + 1
ReadLine == scanTrace'.line[1]
EventRead == LineRead /\ ReadLine.kind = "token_count"
MaxZero(x) == IF x > 0 THEN x ELSE 0
ExpectedDelta(prev, current) ==
    [TotalTokens |-> current.TotalTokens - prev.TotalTokens,
     InputTokens |-> MaxZero(current.InputTokens - prev.InputTokens),
     OutputTokens |-> MaxZero(current.OutputTokens - prev.OutputTokens)]
Plus(a, usage) ==
    [Total |-> a.Total + usage.TotalTokens, Input |-> a.Input + usage.InputTokens,
     Output |-> a.Output + usage.OutputTokens, HasSplit |-> TRUE]

\* C16: when an accepted event follows another one of the file and its total
\* is not below the previous total, what is accounted for it in each window it
\* lies in is the per-field difference, each field clamped at zero, and
\* nothing when the totals are equal
C16_MonotoneDelta ==
    [][(EventRead /\ scan.prevTotal # None
          /\ ReadLine.total.TotalTokens >= scan.prevTotal[1].TotalTokens) =>
         LET delta == ExpectedDelta(scan.prevTotal[1], ReadLine.total)
             counts == delta.TotalTokens # 0
         IN  /\ scan'.sum1w = IF counts /\ ReadLine.time >= scan.cutoff1w
                               THEN Plus(scan.sum1w, delta) ELSE scan.sum1w
             /\ scan'.sum5h = IF counts /\ ReadLine.time >= scan.cutoff1w
                                  /\ ReadLine.time >= scan.cutoff5h
                               THEN Plus(scan.sum5h, delta) ELSE scan.sum5h]_vars

\* the second event of a file was counted: its total rose by one while its
\* input count fell
C16_Witness ==
    /\ scanTrace.n = 2
    /\ scanTrace.line # None
    /\ scanTrace.line[1].kind = "token_count"
    /\ scanTrace.line[1].total.TotalTokens = 3
    /\ scan.prevTotal = Some(scanTrace.line[1].total)
    /\ scan.sum5h = [Total |-> 1, Input |-> 0, Output |-> 2, HasSplit |-> TRUE]
    /\ scan.sum1w = scan.sum5h

\* C17: an event whose total_token_usage equals that of the previous accepted
\* event of the file adds nothing to either window, whatever its
\* last_token_usage; a repeated event leaves the scan exactly where it was, so
\* any number of repetitions leaves the file's sums unchanged
C17_DuplicateSafety ==
    [][(EventRead /\ scan.prevTotal = Some(ReadLine.total)) =>
         /\ scan'.sum5h = scan.sum5h
         /\ scan'.sum1w = scan.sum1w
         /\ (scanTrace.accepted = Some(ReadLine)) =>
               scan' = [scan EXCEPT !.lines = @ + 1]]_vars

\* an event with usage in last_token_usage was read twice and counted once
C17_Witness ==
    /\ scanTrace.n = 2
    /\ scanTrace.line = scanTrace.accepted
    /\ scanTrace.line # None
    /\ scanTrace.line[1].last.TotalTokens = 1
    /\ scanTrace.line[1].time >= scan.cutoff5h
    /\ scan.prevTotal = Some(scanTrace.line[1].total)
    /\ scan.sum5h.Total = 1
    /\ scan.sum1w.Total = 1

\* C18: with the five-hour cutoff not before the weekly one, the five-hour
\* total never exceeds the weekly total, in each file and in the sum over files
C18_WindowMonotonicity ==
    /\ scan.sum5h.Total <= scan.sum1w.Total
    /\ scan.total5h.Total <= scan.totalWeekly.Total

C18_Witness ==
    /\ scan.cutoff5h > scan.cutoff1w
    /\ scan.file = 3
    /\ scan.total5h.Total > 0
    /\ scan.total5h.Total < scan.totalWeekly.Total

-----------------------------------------------------------------------------
(* Properties of the window conversion *)

Converted == window # None /\ window[1].win.ResetsAt # None
UntilReset == TruncatedSeconds(HalfSeconds(window[1].win.ResetsAt[1]) - window[1].now)

\* C19: a window whose resets_at is set has seconds_until_reset equal to
\* max(0, resets_at - now), never negative, also when resets_at is past
C19_SecondsUntilResetClamped ==
    Converted =>
        /\ window[1].out.SecondsUntilReset # None
        /\ window[1].out.SecondsUntilReset[1] = (IF UntilReset > 0 THEN UntilReset ELSE 0)
        /\ window[1].out.SecondsUntilReset[1] >= 0

\* the conversion is exact while resets_at is not in the past
SecondsUntilResetOfFutureReset ==
    (Converted /\ UntilReset >= 0) =>
        window[1].out.SecondsUntilReset = Some(UntilReset)

-----------------------------------------------------------------------------
(* Re-aggregation of the deduplicated rows *)

\* the per-account result a row of the summary was taken from
ResultOfRow(row) == results[CHOOSE i \in Workers : Res(i).account = row]
RowResults == [k \in 1..Len(out[1].Accounts) |-> ResultOfRow(out[1].Accounts[k])]
Reaggregated ==
    Loop(LoopInit(initializationNote), RowResults, 1, resolveActiveCodexHome(env))
ReaggregatedSummary ==
    BuildSummary(Reaggregated, out[1].Accounts, resolveActiveCodexHome(env), 1)

\* C20: aggregating the account rows of a summary again, as if they were the
\* per-account results, gives the same observed totals, the same
\* total_accounts and the same successful_accounts
C20_DedupClosedUnderReaggregation ==
    (Returned /\ out # None) =>
        /\ ~aggregateFails(Reaggregated)
        /\ ReaggregatedSummary.ObservedTokens5h = out[1].ObservedTokens5h
        /\ ReaggregatedSummary.ObservedTokensWeekly = out[1].ObservedTokensWeekly
        /\ ReaggregatedSummary.ObservedWindow5h = out[1].ObservedWindow5h
        /\ ReaggregatedSummary.ObservedWindowWeekly = out[1].ObservedWindowWeekly
        /\ ReaggregatedSummary.TotalAccounts = out[1].TotalAccounts
        /\ ReaggregatedSummary.SuccessfulAccounts = out[1].SuccessfulAccounts

\* the two counts do survive the second aggregation
ReaggregationKeepsCounts ==
    (Returned /\ out # None) =>
        /\ ReaggregatedSummary.TotalAccounts = out[1].TotalAccounts
        /\ ReaggregatedSummary.SuccessfulAccounts = out[1].SuccessfulAccounts

\* and so do the totals when no two results share an identity key
ReaggregationKeepsTotalsOfDistinctKeys ==
    (Returned /\ out # None /\ \A i, j \in Workers : KeyOfResult(i) = KeyOfResult(j) => i = j) =>
        /\ ReaggregatedSummary.ObservedTokens5h = out[1].ObservedTokens5h
        /\ ReaggregatedSummary.ObservedTokensWeekly = out[1].ObservedTokensWeekly

\* C21: the warnings list of every emitted summary has no empty entry and no
\* two entries that are equal after trimming and lowercasing, and it is sorted
\* in ascending order.
C21_WarningsDedupedIgnoringCase ==
    deduped # None =>
        LET w == deduped[1].out
        IN  /\ \A i \in DOMAIN w : w[i] # <<>>
            /\ \A i, j \in DOMAIN w :
                  i # j => ToLower(TrimSpace(w[i])) # ToLower(TrimSpace(w[j]))
            /\ \A i, j \in DOMAIN w : i < j => ~StrLess(w[j], w[i])

\* what dedupeStrings does guarantee: entries trimmed, none empty, no two
\* entries equal as written, ascending byte order
WarningsDedupedExactly ==
    deduped # None =>
        LET w == deduped[1].out
        IN  /\ \A i \in DOMAIN w : w[i] # <<>> /\ TrimSpace(w[i]) = w[i]
            /\ \A i, j \in DOMAIN w : i # j => w[i] # w[j]
            /\ \A i, j \in DOMAIN w : i < j => StrLess(w[i], w[j])

\* C22: account candidates that resolve to the same canonical home (the same
\* path, or a symbolic link and the directory it points to) yield exactly one
\* account in the discovered list, and that account carries the label of the
\* candidate with the higher priority (the earlier one among equal priorities).
EnteredCandidates(home) ==
    { i \in DOMAIN candidates :
        /\ accepted(candidates[i].codexHome, candidates[i].allowWithoutSignals)
        /\ normalizeHome(candidates[i].codexHome) = home }

Winner(home) ==
    CHOOSE i \in EnteredCandidates(home) :
        \A j \in EnteredCandidates(home) :
            \/ candidates[j].priority < candidates[i].priority
            \/ candidates[j].priority = candidates[i].priority /\ i <= j

FetchingWorkers == { i \in DOMAIN workers.pc : workers.pc[i] = "fetching" }

C30_AtMostFourFetchesAtOnce ==
    /\ Cardinality(FetchingWorkers) <= Min(Len(workers.pc), 4)
    /\ Cardinality(FetchingWorkers) = workers.sem

\* more than four accounts: four fetches run, one goroutine is held back by the
\* semaphore, and a later account has finished before an earlier one
C30_Witness ==
    /\ Len(workers.pc) > 4
    /\ Cardinality(FetchingWorkers) = 4
    /\ \E i, j \in DOMAIN workers.pc :
          i < j /\ workers.pc[i] = "started" /\ workers.pc[j] = "done"

\* the source at work
FetchingCallers == { c \in FetchCallers : callers[c].pc # "idle" }
WaitingCallers == { c \in FetchCallers : callers[c].pc = "wait" }
RunningChildren == { p \in DOMAIN children : children[p].state = "running" }
SessionTypeOK ==
    /\ rpcSource.reqMu \in FetchCallers \cup {0}
    /\ referenced(rpcSource, callers, closer, children) = DOMAIN rpcSessions
    /\ \A sid \in DOMAIN rpcSessions :
          rpcSessions[sid].cmd # 0 => rpcSessions[sid].cmd \in DOMAIN children

\* C23: at any time at most one RPC request is outstanding per app-server
\* source: concurrent Fetch calls on one source are serialized, so the pending
\* map of a session never holds more than one entry and no request of one
\* Fetch is sent between the requests of another.
C23_OneRequestOutstanding ==
    /\ Cardinality(FetchingCallers) <= 1
    /\ \A c \in FetchingCallers : rpcSource.reqMu = c
    /\ Cardinality(WaitingCallers) <= 1
    /\ \A sid \in DOMAIN rpcSessions :
          /\ Cardinality(DOMAIN rpcSessions[sid].pending) <= 1
          /\ \A id \in DOMAIN rpcSessions[sid].pending :
                rpcSessions[sid].pending[id] \in WaitingCallers

\* the second Fetch on the source waits for its answer while the other caller,
\* which may still call Fetch, is kept out
C23_Witness ==
    /\ rpcTrace.fetches = 1
    /\ rpcSource.reqMu = 1
    /\ callers[1].pc = "wait"
    /\ callers[1].method = "account/read"
    /\ callers[2].pc = "idle"
    /\ DOMAIN rpcSessions[callers[1].session].pending = {callers[1].reqID}

\* C24: on every child process no account/rateLimits/read or account/read
\* request is sent before the initialize request on that process was answered
\* successfully and the initialized notification was sent; after a restart the
\* handshake is done again before any such request.
SendsRead(c) ==
    /\ callers[c].pc # "wait"
    /\ callers'[c].pc = "wait"
    /\ callers'[c].method \in ReadMethods

C24_HandshakeBeforeReads ==
    [][\A c \in FetchCallers :
          SendsRead(c) =>
              /\ callers'[c].pid \in DOMAIN children
              /\ children[callers'[c].pid].handshake = "notified"]_vars

\* the rate limits are requested with id 5 in the second Fetch: the first
\* Fetch used at most the ids 1 to 3, so id 4 was a second initialize, sent
\* because the session had lost its first process
C24_Witness ==
    \E c \in FetchCallers :
        /\ callers[c].pc = "wait"
        /\ callers[c].method = "account/rateLimits/read"
        /\ callers[c].reqID = 5
        /\ rpcTrace.fetches = 2
        /\ children[callers[c].pid].handshake = "notified"

\* C25: a response read from the child is delivered only to the pending
\* request whose id equals the response's id, and to that request at most
\* once; responses without an id, with an id never issued, or with the id of a
\* request already cancelled or answered are dropped and never reach a later
\* request; the request ids of a session strictly increase and are never
\* reused.
Attempts(c) ==
    /\ callers[c].pc \in {"init", "limits", "account"}
    /\ callers'[c].pc \in {"wait", "failed"}
    /\ callers'[c].pid # 0

DeliveredById ==
    \A c \in WaitingCallers :
        callers[c].respCh.state = "full" => callers[c].respCh.id = callers[c].reqID

C25_ResponsesMatchedById ==
    /\ []DeliveredById
    /\ [][\A c \in FetchCallers :
             /\ Attempts(c) =>
                    \A id \in rpcSessions[callers[c].session].issued :
                        id < callers'[c].reqID
             /\ (c \in WaitingCallers /\ callers[c].respCh.state = "full"
                     /\ callers'[c].pc = "wait")
                    => callers'[c].respCh = callers[c].respCh]_vars

\* a line with the id of an earlier request was dropped while a later request
\* was pending, and the later request got the answer with its own id
C25_Witness ==
    \E c \in WaitingCallers :
        /\ callers[c].staleDropped
        /\ callers[c].reqID > 1
        /\ callers[c].respCh = [state |-> "full", id |-> callers[c].reqID, error |-> FALSE]

\* C26: when the caller's cancellation fires while a request is pending, that
\* request's pending slot is removed and nothing else in the session changes
\* (child process, encoder, initialized flag), so the session stays usable for
\* later requests; the error carries the method name and the cancellation
\* cause.
Cancelled(c) ==
    /\ callers[c].pc = "wait"
    /\ callers'[c].pc = "failed"
    /\ callers'[c].failure[1].kind = "timeout"

C26_CancellationRemovesOnlyTheSlot ==
    [][\A c \in FetchCallers :
          Cancelled(c) =>
              LET sid == callers[c].session
              IN  /\ DOMAIN rpcSessions' = DOMAIN rpcSessions
                  /\ \A other \in DOMAIN rpcSessions \ {sid} :
                        rpcSessions'[other] = rpcSessions[other]
                  /\ DOMAIN rpcSessions'[sid].pending =
                        DOMAIN rpcSessions[sid].pending \ {callers[c].reqID}
                  /\ rpcSessions'[sid].cmd = rpcSessions[sid].cmd
                  /\ rpcSessions'[sid].initialized = rpcSessions[sid].initialized
                  /\ rpcSessions'[sid].nextID = rpcSessions[sid].nextID
                  /\ DOMAIN children' = DOMAIN children
                  /\ \A p \in DOMAIN children : children'[p].state = children[p].state
                  /\ rpcSource' = rpcSource
                  /\ callers'[c].failure[1].method = callers[c].method
                  /\ callers'[c].session = sid]_vars

\* a request on the process was cancelled in the first Fetch, and the second
\* Fetch has its rate limits answered by the same process without a handshake
C26_Witness ==
    \E c \in FetchCallers :
        /\ rpcTrace.fetches = 2
        /\ callers[c].pc = "account"
        /\ callers[c].reqID = 4
        /\ callers[c].pid \in RunningChildren
        /\ children[callers[c].pid].cancelled

\* C27: whenever a request issued during a Fetch fails with a protocol error,
\* a closed stream or a cancellation, the child process is closed before the
\* Fetch returns, for the handshake request, the rate-limits request and the
\* account request alike. (Stated for a source that Close was not called on.)
ReturnsAfterFailure(c, methods) ==
    /\ closer.pc = "idle"
    /\ callers[c].pc = "failed"
    /\ callers'[c].pc = "idle"
    /\ callers[c].failure[1].method \in methods
    /\ callers[c].failure[1].kind \in {"protocol", "aborted", "closed", "timeout"}

ChildClosedAtReturn(c) ==
    \A p \in DOMAIN children' :
        p = callers[c].failure[1].pid => children'[p].state = "exited"

C27_FailedRequestClosesChild ==
    [][\A c \in FetchCallers :
          ReturnsAfterFailure(c, {"initialize", "account/rateLimits/read", "account/read"})
              => ChildClosedAtReturn(c)]_vars

\* the same for the handshake request and the rate-limits request only
FailedHandshakeOrLimitsClosesChild ==
    [][\A c \in FetchCallers :
          ReturnsAfterFailure(c, {"initialize", "account/rateLimits/read"})
              => ChildClosedAtReturn(c)]_vars

\* C28: when the reader observes the end of the stream, every request pending
\* at that moment is woken and returns an error, the pending map becomes empty
\* and the session is reset to not started and not initialized; a request
\* registered around the cleanup either fails at once or is woken, so no
\* request stays blocked after the stream has ended.
WokenAfterStreamEnd ==
    \A c \in WaitingCallers :
        doneClosed(callers[c].pid) => callers[c].respCh.state # "empty"

StreamEnds(p) == p \in DOMAIN children /\ p \notin DOMAIN children'

C28_StreamEndWakesPending ==
    /\ []WokenAfterStreamEnd
    /\ [][/\ \A p \in DOMAIN children :
                StreamEnds(p) =>
                    LET sid == children[p].session
                    IN  /\ \A c \in WaitingCallers :
                              callers[c].reqID \in DOMAIN rpcSessions[sid].pending
                                  => /\ callers'[c].pc = "wait"
                                     /\ callers'[c].respCh.state = "closed"
                        /\ sid \in DOMAIN rpcSessions' =>
                              /\ rpcSessions'[sid].pending = <<>>
                              /\ rpcSessions'[sid].cmd = 0
                              /\ ~rpcSessions'[sid].initialized
          /\ \A c \in FetchCallers :
                (c \notin WaitingCallers /\ callers'[c].pc = "wait")
                    => callers'[c].pid \in DOMAIN children']_vars

\* the stream ended while the rate-limits request was pending: its channel is
\* closed, the map is empty and the session has no process
C28_Witness ==
    \E c \in WaitingCallers :
        /\ callers[c].method = "account/rateLimits/read"
        /\ callers[c].respCh.state = "closed"
        /\ doneClosed(callers[c].pid)
        /\ rpcSessions[callers[c].session].pending = <<>>
        /\ rpcSessions[callers[c].session].cmd = 0
        /\ ~rpcSessions[callers[c].session].initialized

\* C29: every child process spawned by an app-server source is killed through
\* the close path: under every interleaving of Close with a Fetch running on
\* the same source, once Close has returned and the Fetch has returned, no
\* child process started by that source is still running.
C29_NoChildRunsAfterClose ==
    (/\ closer.pc = "closed"
     /\ ~rpcTrace.lateFetch
     /\ FetchingCallers = {})
        => RunningChildren = {}

\* C31: fetchAccountsConcurrent returns only after every account's worker has
\* finished; each result slot is written exactly once, by the worker of the
\* account at that index, so slot i holds the result of account i whatever the
\* order of completion, and no slot is still being written when the results
\* are handed to the merge.
SlotWritten(i) == workers.results[i] = [value |-> i, writes |-> 1]

C31_SlotsWrittenOnceBeforeReturn ==
    /\ \A i \in DOMAIN workers.pc :
          IF workers.pc[i] = "done" THEN SlotWritten(i)
          ELSE workers.results[i] = [value |-> 0, writes |-> 0]
    /\ workers.returned =>
          \A i \in DOMAIN workers.pc : workers.pc[i] = "done" /\ SlotWritten(i)

\* five accounts, a later account finished before an earlier one, and
\* fetchAccountsConcurrent has returned
C31_Witness ==
    /\ workers.returned
    /\ workers.outOfOrder
    /\ Len(workers.pc) > 4
    /\ \A i \in DOMAIN workers.pc : SlotWritten(i)

-----------------------------------------------------------------------------
(* Further properties of the observed-token estimator *)

\* C32: at any time at most one background recomputation is running per
\* home, for every interleaving of asynchronous Estimate calls with refresh
\* completions; the homes with a running recomputation are the in-flight set.
RunningRefreshes(home) ==
    IF home \in DOMAIN estimator.refreshes THEN Len(estimator.refreshes[home]) ELSE 0

C32_OneRefreshPerHome ==
    \A home \in EstimateHomes :
        /\ RunningRefreshes(home) <= 1
        /\ home \in estimator.inflight <=> RunningRefreshes(home) = 1

\* a recomputation of HomeB has returned and, the entry being stale, a later
\* call has launched the next one while HomeA's is still running
C32_Witness ==
    /\ estimator.async
    /\ estimator.inflight = {HomeA, HomeB}
    /\ HasCached(estimator, HomeB)
    /\ estimator.refreshed # None
    /\ estimateTrace # None
    /\ estimateTrace[1].n = 3
    /\ estimateTrace[1].hadCache
    /\ TrimSpace(estimateTrace[1].codexHome) = HomeB

\* C33: when the cache holds an entry of the home with now - computed_at <= TTL,
\* Estimate returns that entry's figures and status without error and starts no
\* recomputation, in asynchronous and in synchronous mode: the cache, the
\* in-flight set and the running recomputations are as before.
FreshCall(t, e) ==
    /\ StatOf(TrimSpace(t.codexHome)) = "dir"
    /\ HasCached(e, TrimSpace(t.codexHome))
    /\ t.now - e.cache[TrimSpace(t.codexHome)].at <= ttl

C33_FreshEntryIsReturnedAsIs ==
    [][(EstimateReturns /\ FreshCall(estimateTrace'[1], estimator)) =>
         LET t == estimateTrace'[1]
             cached == estimator.cache[TrimSpace(t.codexHome)].estimate
         IN  /\ t.err = None
             /\ t.estimate.Window5h = cached.Window5h
             /\ t.estimate.WindowWeekly = cached.WindowWeekly
             /\ t.estimate.Status = cached.Status
             /\ estimator' = estimator]_vars

\* an entry exactly one TTL old is returned, in either mode
C33_WitnessAsync ==
    /\ estimateTrace # None
    /\ estimator.async
    /\ FreshCall(estimateTrace[1], estimator)
    /\ estimateTrace[1].now - estimator.cache[TrimSpace(estimateTrace[1].codexHome)].at = ttl
    /\ estimateTrace[1].estimate.Status = observedTokensStatusEstimated
    /\ estimateTrace[1].estimate.Window5h.Total > 0
    /\ estimator.inflight = {}

C33_Witness ==
    /\ estimateTrace # None
    /\ ~estimator.async
    /\ FreshCall(estimateTrace[1], estimator)
    /\ estimateTrace[1].now - estimator.cache[TrimSpace(estimateTrace[1].codexHome)].at = ttl
    /\ estimateTrace[1].estimate.Status = observedTokensStatusEstimated
    /\ estimateTrace[1].estimate.Note = <<"local estimate (updated ", ttl, " ago)">>
    /\ estimateTrace[1].estimate.Window5h.Total > 0

\* C39: in asynchronous mode every in-flight mark is eventually removed,
\* whether the background recomputation succeeds or fails; a failed
\* recomputation removes the mark and leaves the cache as it was; and once the
\* cache holds the figures of a recomputation of a home, an Estimate call for
\* the home returns them with status estimated, not the warming placeholder.
RefreshReturns == estimator'.refreshes # estimator.refreshes /\ estimateTrace' = estimateTrace

CachedCall(t, e) ==
    /\ e.async
    /\ StatOf(TrimSpace(t.codexHome)) = "dir"
    /\ HasCached(e, TrimSpace(t.codexHome))

C39_WarmingEnds ==
    /\ \A home \in EstimateHomes :
          (home \in estimator.inflight) ~> (home \notin estimator.inflight)
    /\ [][(RefreshReturns /\ estimator'.refreshed # None) =>
             LET r == estimator'.refreshed[1]
             IN  /\ r.home \notin estimator'.inflight
                 /\ r.err # None => estimator'.cache = estimator.cache
                 /\ r.err = None =>
                       /\ estimator'.cache[r.home].estimate \in
                             {c.estimate : c \in ComputeOutcomes(r.home)}
                       /\ estimator'.cache[r.home].estimate.Status = observedTokensStatusEstimated]_vars
    /\ [][(EstimateReturns /\ CachedCall(estimateTrace'[1], estimator)) =>
             LET t == estimateTrace'[1]
                 cached == estimator.cache[TrimSpace(t.codexHome)].estimate
             IN  /\ t.err = None
                 /\ t.estimate.Status = observedTokensStatusEstimated
                 /\ ~t.estimate.Warming
                 /\ t.estimate.Window5h = cached.Window5h
                 /\ t.estimate.WindowWeekly = cached.WindowWeekly]_vars

\* the first call for HomeB got the placeholder, its recomputation succeeded,
\* and the second call returns the figures of HomeB's journal
C39_Witness ==
    /\ estimator.async
    /\ estimator.refreshed = Some([home |-> HomeB, now |-> 0, err |-> None])
    /\ estimateTrace # None
    /\ estimateTrace[1].n = 2
    /\ estimateTrace[1].hadCache
    /\ TrimSpace(estimateTrace[1].codexHome) = HomeB
    /\ estimateTrace[1].estimate.Status = observedTokensStatusEstimated
    /\ estimateTrace[1].estimate.Window5h = Breakdown(JournalOf(HomeB)[1])
    /\ HomeB \notin estimator.inflight

-----------------------------------------------------------------------------
(* The refresh interval of the account set *)

\* C34: refreshAccounts invokes the account loader only when the refresh is
\* forced, no refresh has happened yet, or at least the refresh interval has
\* elapsed since the last refresh; a call that does not invoke it leaves the
\* running account fetchers, every source and the time of the last refresh
\* as they were.
LastCall == refresh.call[1]
Elapsed(call) == call.now - call.last[1]

LoaderInvokedOnlyWhenDue ==
    (refresh.call # None /\ LastCall.loaded # "no") =>
        \/ LastCall.force
        \/ LastCall.last = None
        \/ Elapsed(LastCall) >= accountRefreshInterval

C34_LoaderInvokedOnlyWhenDue ==
    /\ []LoaderInvokedOnlyWhenDue
    /\ [][(refresh' # refresh /\ refresh'.call[1].loaded = "no") =>
             /\ accountFetchers' = accountFetchers
             /\ sources' = sources
             /\ refresh'.accountsLastRefreshedAt = refresh.accountsLastRefreshedAt]_vars

\* a fetch one unit after a refresh that loaded two accounts: no reload
C34_Witness ==
    /\ refresh.call # None
    /\ LastCall.loaded = "no"
    /\ ~LastCall.force
    /\ Elapsed(LastCall) = accountRefreshInterval - 1
    /\ Len(accountFetchers) = 2
    /\ \A id \in DOMAIN sources : sources[id] = "open"

\* a fetch exactly one interval after the last refresh reloads and drops a home
C34_WitnessReload ==
    /\ refresh.call # None
    /\ LastCall.loaded = "list"
    /\ ~LastCall.force
    /\ LastCall.last # None
    /\ Elapsed(LastCall) = accountRefreshInterval
    /\ reloadTrace.reloads = 2
    /\ \E id \in DOMAIN sources : sources[id] = "closed"

-----------------------------------------------------------------------------
(* Further properties of the journal scan *)

AnchorIsOld == scanTrace.accepted # None /\ scanTrace.accepted[1].time < scan.cutoff1w
InWindow(line) == line.time >= scan.cutoff1w
Charged(usage) ==
    /\ scan'.sum1w = IF usage.TotalTokens > 0 THEN Plus(scan.sum1w, usage) ELSE scan.sum1w
    /\ scan'.sum5h = IF usage.TotalTokens > 0 /\ ReadLine.time >= scan.cutoff5h
                      THEN Plus(scan.sum5h, usage) ELSE scan.sum5h
AnchorFollowsEveryEvent ==
    EventRead =>
        /\ scan'.prevTotal = Some(ReadLine.total)
        /\ ~InWindow(ReadLine) => scan'.sum1w = scan.sum1w /\ scan'.sum5h = scan.sum5h

\* C35: every accepted token_count event becomes the anchor of the next
\* event's delta, also when it added no usage or is older than the weekly
\* cutoff; an event older than the cutoff adds nothing itself, and the first
\* event of the week after it is charged only the difference from it.
C35_EveryAcceptedEventIsTheAnchor ==
    [][/\ AnchorFollowsEveryEvent
       /\ (EventRead /\ AnchorIsOld /\ InWindow(ReadLine)) =>
             Charged(ExpectedDelta(scanTrace.accepted[1].total, ReadLine.total))]_vars

\* C35, amended: as above, the first event of the week after an old one being
\* charged the difference from it when its total is not below the old total,
\* and its last_token_usage when its total is below it.
C35_AnchorAndDifferenceOrLastUsage ==
    [][/\ AnchorFollowsEveryEvent
       /\ (EventRead /\ AnchorIsOld /\ InWindow(ReadLine)) =>
             IF ReadLine.total.TotalTokens >= scanTrace.accepted[1].total.TotalTokens
             THEN Charged(ExpectedDelta(scanTrace.accepted[1].total, ReadLine.total))
             ELSE Charged(ReadLine.last)]_vars

\* an event older than the week with total 2, then an event of the week with
\* total 5: three tokens are charged
C35_Witness ==
    /\ scanTrace.n = 2
    /\ scanTrace.afterOld
    /\ scanTrace.accepted # None
    /\ scanTrace.accepted = scanTrace.line
    /\ scanTrace.accepted[1].time >= scan.cutoff1w
    /\ scanTrace.accepted[1].total.TotalTokens = 5
    /\ scan.prevTotal = Some(scanTrace.accepted[1].total)
    /\ scan.sum1w = [Total |-> 3, Input |-> 1, Output |-> 2, HasSplit |-> TRUE]

\* C36: a line that is not valid JSON, or a token_count line whose timestamp
\* does not parse, never aborts the parse of a file: the file's sums are those
\* of the same file without such lines, and when the file ends exactly one
\* warning with their number is produced if there is such a line, none otherwise.
SumsAsWithoutSkippedLines ==
    /\ scan.sum5h = scanTrace.without.sum5h
    /\ scan.sum1w = scanTrace.without.sum1w
OneWarningWithTheCount ==
    scan'.file = scan.file + 1 =>
        scan'.warnings = scan.warnings \o
            (IF scanTrace.skipped > 0
             THEN << <<"skipped ", scanTrace.skipped, " unparsable lines in ", scan.file>> >>
             ELSE <<>>)

C36_UnparsableLinesNeverAbort ==
    /\ [](scan.err = None /\ SumsAsWithoutSkippedLines)
    /\ [][OneWarningWithTheCount]_vars

\* the same for the lines the scanner delivers: the parse is aborted by a line
\* of more than 4 MiB only
DeliveredLinesNeverAbort ==
    /\ [](IF scan.err = None THEN SumsAsWithoutSkippedLines
          ELSE scanTrace.line # None /\ scanTrace.line[1].long)
    /\ [][OneWarningWithTheCount]_vars

\* a file with an event, two lines that do not parse and no long line has ended
DeliveredLinesWitness ==
    /\ scan.file = 2
    /\ scan.err = None
    /\ scan.warnings = << <<"skipped ", 2, " unparsable lines in ", 1>> >>
    /\ scan.totalWeekly.Total > 0

-----------------------------------------------------------------------------
(* The account row kept for an identity *)

\* the preference of the documentation, as a triple compared from the left:
\* no error over error, the active home over another, the later fetched_at
\* (a row without fetched_at last)
Preference(i) ==
    << IF TrimSpace(Res(i).account.Error) = <<>> THEN 1 ELSE 0,
       IF ExpectedActiveHome # <<>> /\ EvalSymlinks(Res(i).codexHome) = ExpectedActiveHome
       THEN 1 ELSE 0,
       IF Res(i).account.FetchedAt = None THEN 0 ELSE Res(i).account.FetchedAt[1] >>
Exceeds(p, q) ==
    \/ p[1] > q[1]
    \/ p[1] = q[1] /\ p[2] > q[2]
    \/ p[1] = q[1] /\ p[2] = q[2] /\ p[3] > q[3]
SameKey(i) == { j \in Workers : KeyOfResult(j) = KeyOfResult(i) }
Maximal(i) == \A j \in SameKey(i) : ~Exceeds(Preference(j), Preference(i))
Rows == { out[1].Accounts[k] : k \in DOMAIN out[1].Accounts }

\* C37: for every identity key the account row of the output is the row of a
\* result that no result with the same key exceeds in the preference (no error,
\* then the active home, then the later fetched_at), one row per key; so the
\* row carries no error when a result with its key succeeded.
C37_KeptRowIsMaximal ==
    (Returned /\ out # None) =>
        /\ Cardinality(Rows) = Cardinality({ KeyOfResult(i) : i \in Workers })
        /\ Len(out[1].Accounts) = Cardinality(Rows)
        /\ \A i \in Workers :
              \E j \in SameKey(i) :
                 /\ Maximal(j)
                 /\ Res(j).account \in Rows
                 /\ Succeeded(i) => TrimSpace(Res(j).account.Error) = <<>>

\* two results with one key: the first, fetched later by the fallback, from
\* another home; the second from the active home, and its row is kept
C37_Witness ==
    /\ Returned
    /\ out # None
    /\ NumAccounts = 2
    /\ KeyOfResult(1) = KeyOfResult(2)
    /\ Succeeded(1) /\ Succeeded(2)
    /\ Exceeds(Preference(2), Preference(1))
    /\ After(Res(1).account.FetchedAt, Res(2).account.FetchedAt)
    /\ out[1].Accounts = << Res(2).account >>

\* the failed first result and the second, which succeeded without identity,
\* share the unverified row: the row of the second replaces the first
C37_WitnessError ==
    /\ Returned
    /\ out # None
    /\ NumAccounts = 2
    /\ KeyOfResult(1) = KeyOfResult(2)
    /\ Failed(1) /\ Succeeded(2)
    /\ out[1].Accounts = << Res(2).account >>

-----------------------------------------------------------------------------
(* account/read fails after the rate limits were read *)

\* the step in which Fetch returns after fetchAccount
AccountRead == srcPc = "account" /\ srcPc' = "idle"
Returned38 == authTrace'.result[1]
AccountReadFailed == AccountRead /\ Returned38.account[1].err # <<>>
SnapshotRead == authTrace.snapshot[1].RateLimits
BothWindows == SnapshotRead.Primary # None /\ SnapshotRead.Secondary # None
IdentityWarning(w) ==
    /\ Len(w) > 1
    /\ Head(w) = "account identity unavailable: "
    /\ Tail(w) = Returned38.account[1].err

\* C38: when account/read fails (an error of the request, a result without
\* account) after account/rateLimits/read has answered, Fetch returns what it
\* returns for the snapshot alone: for a snapshot with both windows the
\* summary with these windows, with empty identity fields and, as its last
\* warning, that the account identity is unavailable; an error only for a
\* snapshot that lacks a window. The session and its process stay as they are.
C38_AccountFailureKeepsSummary ==
    [][AccountReadFailed =>
         /\ Returned38.account[1].identity = None
         /\ BothWindows <=> Returned38.summary # None
         /\ BothWindows <=> Returned38.err = <<>>
         /\ Returned38.err \in {<<>>, <<"missing primary window">>,
                                 <<"missing secondary window">>}
         /\ BothWindows =>
               LET summary == Returned38.summary[1]
               IN  /\ summary.WindowDataAvailable
                   /\ summary.PrimaryWindow.UsedPercent = SnapshotRead.Primary[1]
                   /\ summary.SecondaryWindow.UsedPercent = SnapshotRead.Secondary[1]
                   /\ summary.AccountEmail = <<>>
                   /\ summary.AccountID = <<>>
                   /\ summary.UserID = <<>>
                   /\ summary.Warnings # <<>>
                   /\ IdentityWarning(summary.Warnings[Len(summary.Warnings)])
                   /\ \A k \in 1..(Len(summary.Warnings) - 1) :
                         ~IdentityWarning(summary.Warnings[k])
         /\ appServer' = appServer
         /\ procs' = procs]_vars

\* a Fetch has returned the summary although its account/read was cancelled;
\* the session still has its initialized, running process
C38_Witness ==
    /\ srcPc = "idle"
    /\ authTrace.result # None
    /\ authTrace.result[1].account # None
    /\ authTrace.result[1].account[1].err = <<"account/read timeout: context canceled">>
    /\ authTrace.result[1].summary # None
    /\ authTrace.result[1].summary[1].AccountEmail = <<>>
    /\ Len(authTrace.result[1].summary[1].Warnings) = 2
    /\ appServer.session # None
    /\ appServer.session[1].initialized
    /\ PidOf(appServer.session) # 0
    /\ procs[PidOf(appServer.session)] = "running"

-----------------------------------------------------------------------------
(* The polling loop has one fetch in flight *)

Delivered(type) ==
    /\ program'.delivered = program.delivered + 1
    /\ program'.msg[1].type = type
OneFetchInFlight ==
    /\ program.cmds.fetch <= 1
    /\ program.started => (uiModel.fetching <=> program.cmds.fetch = 1)
TickWhileFetching ==
    (Delivered("pollTick") /\ uiModel.fetching) =>
        /\ program'.cmds.poll = program.cmds.poll
        /\ program'.cmds.poll > 0
        /\ program'.cmds.fetch = program.cmds.fetch
        /\ program'.fetchesStarted = program.fetchesStarted
        /\ uiModel'.fetching
TickWhileIdle ==
    (Delivered("pollTick") /\ ~uiModel.fetching) =>
        /\ program'.cmds.poll = program.cmds.poll
        /\ program'.cmds.fetch = 1
        /\ program'.fetchesStarted = program.fetchesStarted + 1
        /\ uiModel'.fetching
ResultClearsTheFlag ==
    Delivered("fetchResult") =>
        /\ ~uiModel'.fetching
        /\ program'.cmds.fetch = 0
        /\ program'.msg[1].err # None =>
              /\ uiModel'.summary = uiModel.summary
              /\ uiModel'.lastSuccessAt = uiModel.lastSuccessAt

\* C40: the live UI has at most one fetch in flight, and the flag says
\* whether there is one; a poll tick that arrives during a fetch schedules the
\* next tick and starts no fetch; every fetch result clears the flag, and the
\* next tick then starts a fetch; a result with an error leaves the summary
\* as it was, so the model always shows the summary of the last fetch that
\* returned no error.
C40_OneFetchInFlight ==
    /\ [](OneFetchInFlight /\ uiModel.summary = program.lastGood)
    /\ [][TickWhileFetching /\ TickWhileIdle /\ ResultClearsTheFlag]_vars

\* the first fetch succeeded, a tick started the second, the second failed
\* and the summary of the first is still shown
C40_Witness ==
    /\ program.msg # None
    /\ program.msg[1].type = "fetchResult"
    /\ program.msg[1].err # None
    /\ program.fetchesStarted = 2
    /\ ~uiModel.fetching
    /\ uiModel.lastError # <<>>
    /\ uiModel.summary # None
    /\ uiModel.summary = program.lastGood

\* a tick has arrived while the first fetch is still out: the next tick is
\* scheduled and no second fetch was started
C40_WitnessTickDuringFetch ==
    /\ program.msg # None
    /\ program.msg[1].type = "pollTick"
    /\ program.fetchesStarted = 1
    /\ program.cmds.fetch = 1
    /\ program.cmds.poll = 1
    /\ uiModel.fetching

====
